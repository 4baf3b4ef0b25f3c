---------------------------- MODULE KeyboardProofs ----------------------------
(***************************************************************************)
(* The keyboard driver, for every set of keys and every size of the ring.  *)
(*                                                                         *)
(* Two arguments, one on the other:                                        *)
(*  - the lights: kb_ack accepts the first byte that is not 0, so set_leds *)
(*    does not know that its last command was taken; LightsInv says what   *)
(*    the keyboard has been told at each point, and no command is lost;    *)
(*  - the decoder: the codes that are on their way are those of a line of  *)
(*    items, each a key that went down, a key that was let go, or an       *)
(*    acknowledgement.  Between any two items there is a point: the keys   *)
(*    that were down and the locks that were on there.  The driver's flags *)
(*    are those of the first point, what is held those of the last, and    *)
(*    what is owed is the reports of the items between (Decoding).         *)
(*                                                                         *)
(* The decoder's part is about the careful person (CarefulSpec), and about *)
(* a ring that has room for what the person and the commands can send      *)
(* (RingSuffices): with the 32 bytes of the code, seven codes ahead.       *)
(***************************************************************************)
EXTENDS Keyboard, SequenceTheorems, TLAPS

-----------------------------------------------------------------------------
(* The tables, row by row *)

\* What the two columns without E0 hold.
FirstTwo(row, a, b) == row[1] = a /\ row[2] = b

Special == Modifiers \cup LockKeys

\* A letter is in the first two columns of the row of its code (keyboard.c:14-157).
LEMMA LetterRows ==
  ASSUME NEW k, NEW c, <<k, c>> \in LetterCodes
  PROVE  c \in 1 .. 88 /\ k \in Letters /\ FirstTwo(keymap[c], Plain(k), Shifted(k))
<1>1. c \in 1 .. 88 /\ k \in Letters /\ keymap[c] = Chars(k)
  BY DEF LetterCodes, Letters, keymap, QRow, ARow, ZRow
<1>. QED
  BY <1>1 DEF Chars, FirstTwo

\* So is a digit or a sign; the space bar has no second character.
LEMMA SignRows ==
  ASSUME NEW k, NEW c, <<k, c>> \in SignCodes
  PROVE  /\ c \in 1 .. 88 /\ k \in (Signs \cup OneSign) \ Letters
         /\ FirstTwo(keymap[c], Plain(k), IF k \in OneSign THEN Plain(k) ELSE Shifted(k))
<1>1. c \in 1 .. 88 /\ k \notin Letters
  BY DEF SignCodes, Letters
<1>2. k \in Signs \cup OneSign
  BY DEF SignCodes, Signs, OneSign
<1>3. CASE c \in {53, 57}
  <2>1. keymap[c] = Single(c)
    BY <1>3 DEF keymap
  <2>2. <<k, c>> = <<"/", 53>> \/ <<k, c>> = <<"space", 57>>
    BY <1>3 DEF SignCodes
  <2>3. CASE k = "/" /\ c = 53
    BY <2>1, <2>3, <1>1, <1>2 DEF FirstTwo, Single, OneSign
  <2>4. CASE k = "space" /\ c = 57
    BY <2>1, <2>4, <1>1, <1>2 DEF FirstTwo, Single, OneSign
  <2>. QED
    BY <2>2, <2>3, <2>4
<1>4. CASE c \notin {53, 57}
  <2>1. keymap[c] = Chars(k)
    BY <1>4 DEF SignCodes, keymap, TopRow, QRow, ARow, ZRow
  <2>2. k # "space"
    BY <1>4 DEF SignCodes
  <2>. QED
    BY <2>1, <2>2, <1>1, <1>2 DEF FirstTwo, Chars, OneSign
<1>. QED
  BY <1>3, <1>4

\* A key without a character has its name in both columns.
LEMMA NameRows ==
  ASSUME NEW k, NEW c, <<k, c>> \in NameCodes
  PROVE  /\ c \in 1 .. 88 /\ k \notin Signs \cup OneSign /\ k \notin DOMAIN Keypad
         /\ FirstTwo(keymap[c], Key(k), Key(k))
<1>1. c \in 1 .. 88
  BY DEF NameCodes
<1>2. FirstTwo(keymap[c], Key(k), Key(k))
  <2>1. CASE c \in \h3B .. \h44
    <3>1. keymap[c] = Both(FRow[c - 58])
      BY <2>1 DEF keymap
    <3>2. FRow[c - 58] = k
      BY <2>1 DEF FRow, NameCodes
    <3>. QED
      BY <3>1, <3>2 DEF Both, FirstTwo
  <2>2. CASE c \notin \h3B .. \h44
    <3>1. keymap[c] = Single(c)
      BY <2>2 DEF NameCodes, keymap
    <3>2. \/ Single(c) = Both(k)
          \/ k = "ENTER" /\ c = 28
          \/ k = "CTRL_L" /\ c = 29
          \/ k = "ALT_L" /\ c = 56
      BY <2>2 DEF NameCodes, Single
    <3>3. /\ FirstTwo(Single(28), Key("ENTER"), Key("ENTER"))
          /\ FirstTwo(Single(29), Key("CTRL_L"), Key("CTRL_L"))
          /\ FirstTwo(Single(56), Key("ALT_L"), Key("ALT_L"))
      BY DEF FirstTwo, Single
    <3>. QED
      BY <3>1, <3>2, <3>3 DEF FirstTwo, Both
  <2>. QED
    BY <2>1, <2>2
<1>3. k \notin Signs \cup OneSign
  BY DEF NameCodes, Signs, Letters, OneSign
<1>4. k \notin DOMAIN Keypad
  BY DEF NameCodes, Keypad
<1>. QED
  BY <1>1, <1>2, <1>3, <1>4

\* The keypad: what the code is after OfPad, with and without Shift.
LEMMA PadRows ==
  ASSUME NEW k, NEW c, <<k, c>> \in KeypadCodes
  PROVE  /\ c \in 1 .. 88 /\ k \in DOMAIN Keypad
         /\ keymap[c][1] \notin {Plain(x) : x \in Letters}
         /\ keymap[c][1][1] \notin Special /\ keymap[c][2][1] \notin Special
         /\ OfPad(keymap[c][2]) = Keypad[k][1]
         /\ OfPad(keymap[c][1]) = Keypad[k][IF "NUM_LOCK" \in locks THEN 1 ELSE 2]
<1>1. c \in 1 .. 88 /\ k \in DOMAIN Keypad
  BY DEF KeypadCodes, Keypad
<1>2. keymap[c] = IF c = 55 THEN Single(c) ELSE Pad[c - 70]
  BY DEF KeypadCodes, keymap
<1>3. DOMAIN PadAlways = {"PAD_SLASH", "PAD_STAR", "PAD_MINUS", "PAD_PLUS", "PAD_ENTER"}
      /\ DOMAIN PadDigit = {"PAD_0", "PAD_1", "PAD_2", "PAD_3", "PAD_4", "PAD_5",
                            "PAD_6", "PAD_7", "PAD_8", "PAD_9", "PAD_DOT"}
  BY DEF PadAlways, PadDigit
<1>4. OfPad(keymap[c][2]) = Keypad[k][1]
  <2>1. keymap[c][2] = Keypad[k][1]
    BY <1>2 DEF KeypadCodes, Pad, Single, Keypad
  <2>2. keymap[c][2][1] \in {"0", "1", "2", "3", "4", "5", "6", "7", "8", "9", ".", "-", "="}
    BY <1>2 DEF KeypadCodes, Pad, Single, Plain, Shifted
  <2>3. keymap[c][2][1] \notin DOMAIN PadAlways \cup DOMAIN PadDigit
    BY <1>3, <2>2
  <2>. QED
    BY <2>1, <2>3 DEF OfPad
<1>5. OfPad(keymap[c][1]) = Keypad[k][IF "NUM_LOCK" \in locks THEN 1 ELSE 2]
  <2>1. CASE c = 55
    <3>1. k = "KP_STAR" /\ keymap[c][1] = Shifted("8")
      BY <1>2, <2>1 DEF KeypadCodes, Single
    <3>2. "8" \notin DOMAIN PadAlways \cup DOMAIN PadDigit /\ Shifted("8")[1] = "8"
      BY <1>3 DEF Shifted
    <3>. QED
      BY <3>1, <3>2 DEF OfPad, Keypad
  <2>2. CASE c \in {74, 78}
    <3>1. \/ k = "KP_MINUS" /\ keymap[c][1] = Key("PAD_MINUS")
          \/ k = "KP_PLUS" /\ keymap[c][1] = Key("PAD_PLUS")
      BY <1>2, <2>2 DEF KeypadCodes, Pad
    <3>2. keymap[c][1][1] \in DOMAIN PadAlways /\ keymap[c][1][1] \notin DOMAIN PadDigit
      BY <1>3, <3>1 DEF Key
    <3>3. OfPad(keymap[c][1]) = PadAlways[keymap[c][1][1]]
      BY <3>2 DEF OfPad
    <3>. QED
      BY <3>1, <3>3 DEF Keypad, PadAlways, Key
  <2>3. CASE c \notin {55, 74, 78}
    <3>1. keymap[c][1][1] \in DOMAIN PadDigit /\ keymap[c][1][1] \notin DOMAIN PadAlways
      BY <1>2, <1>3, <2>3 DEF KeypadCodes, Pad, Key
    <3>2. /\ Plain(PadDigit[keymap[c][1][1]]) = Keypad[k][1]
          /\ Key(PadName[keymap[c][1][1]]) = Keypad[k][2]
      BY <1>2, <2>3, SMTT(40) DEF KeypadCodes, Pad, PadDigit, PadName, Keypad, Key
    <3>. QED
      BY <3>1, <3>2 DEF OfPad
  <2>. QED
    BY <2>1, <2>2, <2>3
<1>6. keymap[c][1] \notin {Plain(x) : x \in Letters}
  <2>1. keymap[c][1][2] \in {"key", "shifted"}
    BY <1>2 DEF KeypadCodes, Pad, Single, Key, Shifted
  <2>. QED
    BY <2>1 DEF Plain
<1>7. keymap[c][1][1] \notin Special /\ keymap[c][2][1] \notin Special
  <2>1. keymap[c][1][1] \in {"8", "PAD_7", "PAD_8", "PAD_9", "PAD_MINUS", "PAD_4", "PAD_5",
                "PAD_6", "PAD_PLUS", "PAD_1", "PAD_2", "PAD_3", "PAD_0", "PAD_DOT"}
    BY <1>2 DEF KeypadCodes, Pad, Single, Key, Shifted
  <2>2. keymap[c][2][1] \in {"0", "1", "2", "3", "4", "5", "6", "7", "8", "9", ".", "-", "="}
    BY <1>2 DEF KeypadCodes, Pad, Single, Plain, Shifted
  <2>. QED
    BY <2>1, <2>2 DEF Special, Modifiers, LockKeys
<1>. QED
  BY <1>1, <1>4, <1>5, <1>6, <1>7

\* After E0: the third column.
LEMMA E0Rows ==
  ASSUME NEW k, NEW c, <<k, c>> \in E0Codes
  PROVE  /\ c \in 1 .. 99 /\ c # \h2A /\ c # \h37
         /\ keymap[c][1] \notin {Plain(x) : x \in Letters}
         /\ keymap[c][3] = IF k = "KP_SLASH" THEN Key("PAD_SLASH")
                           ELSE IF k = "KP_ENTER" THEN Key("PAD_ENTER")
                           ELSE IF <<k, c>> \in PowerCodes THEN None ELSE Key(k)
<1>1. c \in 1 .. 99 /\ c # 42 /\ c # 55
  BY DEF E0Codes, PowerCodes
<1>2. keymap[c] = IF c \in 71 .. 83 THEN Pad[c - 70] ELSE Single(c)
  BY DEF keymap, E0Codes, PowerCodes
<1>3. keymap[c][1] \notin {Plain(x) : x \in Letters}
  <2>1. keymap[c][1][2] = "key" \/ keymap[c][1] = Plain("/")
    <3>1. CASE c \in 71 .. 83
      <4>1. \A i \in 1 .. 13 : Pad[i][1][2] = "key"
        BY DEF Pad, Key
      <4>. QED
        BY <1>2, <3>1, <4>1
    <3>2. CASE c \notin 71 .. 83
      <4>1. c \in {28, 29, 53, 56, 91, 92, 93, 94, 95, 99}
        BY <3>2 DEF E0Codes, PowerCodes
      <4>2. Single(c)[1][2] = "key" \/ Single(c)[1] = Plain("/")
        <5>1. /\ Single(28)[1] = Key("ENTER") /\ Single(29)[1] = Key("CTRL_L")
              /\ Single(53)[1] = Plain("/")   /\ Single(56)[1] = Key("ALT_L")
          BY SMTT(40) DEF Single
        <5>2. /\ Single(91)[1] = None /\ Single(92)[1] = None /\ Single(93)[1] = None
              /\ Single(94)[1] = None /\ Single(95)[1] = None /\ Single(99)[1] = None
          BY SMTT(40) DEF Single, Empty
        <5>3. None = Key("none") /\ \A x : Key(x)[2] = "key"
          BY DEF None, Key
        <5>. QED
          BY <4>1, <5>1, <5>2, <5>3
      <4>. QED
        BY <1>2, <3>2, <4>2
    <3>. QED
      BY <3>1, <3>2
  <2>2. "/" \notin Letters
    BY DEF Letters
  <2>. QED
    BY <2>1, <2>2 DEF Plain
<1>4. keymap[c][3] = IF k = "KP_SLASH" THEN Key("PAD_SLASH")
                           ELSE IF k = "KP_ENTER" THEN Key("PAD_ENTER")
                           ELSE IF <<k, c>> \in PowerCodes THEN None ELSE Key(k)
  BY <1>2 DEF Single, Pad, E0Codes, PowerCodes, Empty
<1>. QED
  BY <1>1, <1>3, <1>4

-----------------------------------------------------------------------------
(* The codes of a key *)

Whole == {"PRINTSCREEN", "PAUSEBREAK"}

\* A key sends one code, or E0 and one code, unless it is one of the two.
OneCode(k, c) == <<k, c>> \in OneCodes /\ Make[k] = <<c>> /\ Break[k] = <<c + 128>>
E0Code(k, c)  == <<k, c>> \in E0Codes /\ Make[k] = <<E0, c>> /\ Break[k] = <<E0, c + 128>>

\* CodeOf finds the code of a name in a table.
LEMMA CodeOfIs ==
  ASSUME NEW S, NEW k \in NamesOf(S), \A x, c : <<x, c>> \in S => c \in 1 .. 127,
         \A p \in S : p = <<p[1], p[2]>>
  PROVE  <<k, CodeOf(S, k)>> \in S /\ CodeOf(S, k) \in 1 .. 127
<1>1. PICK p \in S : k = p[1]
  BY DEF NamesOf
<1>2. \E c \in 1 .. 127 : <<k, c>> \in S
  BY <1>1
<1>. QED
  BY <1>2 DEF CodeOf

\* The tables list names with codes, and neither Print Screen nor Pause.
LEMMA Pairs ==
  /\ \A p \in OneCodes : p = <<p[1], p[2]>> /\ p[1] \notin Whole
  /\ \A p \in E0Codes  : p = <<p[1], p[2]>> /\ p[1] \notin Whole
  /\ \A x, c : <<x, c>> \in OneCodes => c \in 1 .. 88
  /\ \A x, c : <<x, c>> \in E0Codes => c \in 1 .. 99
<1>1. \A p \in OneCodes : p = <<p[1], p[2]>> /\ p[1] \notin Whole
  BY DEF OneCodes, LetterCodes, SignCodes, NameCodes, KeypadCodes, Whole
<1>2. \A p \in E0Codes  : p = <<p[1], p[2]>> /\ p[1] \notin Whole
  BY DEF E0Codes, PowerCodes, Whole
<1>3. \A x, c : <<x, c>> \in OneCodes => c \in 1 .. 88
  BY LetterRows, SignRows, NameRows, PadRows DEF OneCodes
<1>4. \A x, c : <<x, c>> \in E0Codes => c \in 1 .. 99
  BY E0Rows
<1>. QED
  BY <1>1, <1>2, <1>3, <1>4

\* A key sends one code, or E0 and one code, unless it is Print Screen or Pause.
LEMMA KeyCodes ==
  ASSUME NEW k \in DOMAIN Make
  PROVE  \/ k \in Whole
         \/ k \notin Whole /\ \E c \in 1 .. 88 : OneCode(k, c)
         \/ k \notin Whole /\ \E c \in 1 .. 99 : E0Code(k, c)
<1>. SUFFICES ASSUME k \notin Whole
              PROVE  \/ \E c \in 1 .. 88 : OneCode(k, c)
                     \/ \E c \in 1 .. 99 : E0Code(k, c)
  OBVIOUS
<1>0. k \in NamesOf(OneCodes) \cup NamesOf(E0Codes) \cup Whole
  BY DEF Make, Whole
<1>1. CASE k \in NamesOf(OneCodes)
  <2>. DEFINE c == CodeOf(OneCodes, k)
  <2>1. <<k, c>> \in OneCodes /\ c \in 1 .. 88
    BY <1>1, CodeOfIs, Pairs
  <2>2. Make[k] = <<c>>
    BY <1>1, <1>0 DEF Make, Whole
  <2>. HIDE DEF c
  <2>3. [Make[k] EXCEPT ![Len(Make[k])] = @ + 128] = <<c + 128>>
    BY <2>1, <2>2
  <2>4. Break[k] = <<c + 128>>
    BY <2>3 DEF Break, Whole
  <2>. QED
    BY <2>1, <2>2, <2>4 DEF OneCode
<1>2. CASE k \notin NamesOf(OneCodes)
  <2>. DEFINE c == CodeOf(E0Codes, k)
  <2>1. <<k, c>> \in E0Codes /\ c \in 1 .. 99
    BY <1>0, <1>2, CodeOfIs, Pairs
  <2>2. Make[k] = <<E0, c>>
    BY <1>2, <1>0 DEF Make, Whole
  <2>. HIDE DEF c
  <2>3. [Make[k] EXCEPT ![Len(Make[k])] = @ + 128] = <<E0, c + 128>>
    BY <2>1, <2>2
  <2>4. Break[k] = <<E0, c + 128>>
    BY <2>3 DEF Break, Whole
  <2>. QED
    BY <2>1, <2>2, <2>4 DEF E0Code
<1>. QED
  BY <1>1, <1>2

-----------------------------------------------------------------------------
(* What keyboard_read makes of a key *)

\* The row and the column of a key with one code.
LEMMA DecodeOne ==
  ASSUME NEW c \in 1 .. 88
  PROVE  /\ make(<<c>>) /\ ~make(<<c + 128>>)
         /\ key(<<c>>) = keymap[c][IF caps(keymap[c]) THEN 2 ELSE 1]
         /\ key(<<c + 128>>) = keymap[c][IF caps(keymap[c]) THEN 2 ELSE 1]
<1>1. c < 128 /\ c % 128 = c /\ ~(c + 128 < 128) /\ (c + 128) % 128 = c /\ c # 224 /\ c + 128 # 224
  OBVIOUS
<1>2. /\ scan_code(<<c>>) = c /\ scan_code(<<c + 128>>) = c + 128
      /\ ~code_with_E0(<<c>>) /\ ~code_with_E0(<<c + 128>>)
  BY <1>1 DEF scan_code, code_with_E0, E0
<1>. QED
  BY <1>1, <1>2 DEF make, key, keyrow, column

\* The row and the column of a key that sends E0: Shift wins over E0.
LEMMA DecodeE0 ==
  ASSUME NEW c \in 1 .. 99
  PROVE  /\ make(<<E0, c>>) /\ ~make(<<E0, c + 128>>)
         /\ key(<<E0, c>>) = keymap[c][IF caps(keymap[c]) THEN 2 ELSE 3]
         /\ key(<<E0, c + 128>>) = keymap[c][IF caps(keymap[c]) THEN 2 ELSE 3]
<1>1. c < 128 /\ c % 128 = c /\ ~(c + 128 < 128) /\ (c + 128) % 128 = c
  OBVIOUS
<1>2. /\ scan_code(<<E0, c>>) = c /\ scan_code(<<E0, c + 128>>) = c + 128
      /\ code_with_E0(<<E0, c>>) /\ code_with_E0(<<E0, c + 128>>)
  BY <1>1 DEF scan_code, code_with_E0
<1>. QED
  BY <1>1, <1>2 DEF make, key, keyrow, column

\* Keys that are neither modifiers nor locks.
LEMMA Ordinary ==
  /\ \A k \in Signs \cup OneSign : k \notin Special /\ k \notin DOMAIN PadAlways
                                   /\ k \notin DOMAIN PadDigit
  /\ \A k \in Signs \cup OneSign : k \notin DOMAIN Keypad
  /\ "PAD_SLASH" \notin Special /\ "PAD_ENTER" \notin Special /\ "none" \notin Special
<1>1. DOMAIN PadAlways = {"PAD_SLASH", "PAD_STAR", "PAD_MINUS", "PAD_PLUS", "PAD_ENTER"}
      /\ DOMAIN PadDigit = {"PAD_0", "PAD_1", "PAD_2", "PAD_3", "PAD_4", "PAD_5",
                            "PAD_6", "PAD_7", "PAD_8", "PAD_9", "PAD_DOT"}
  BY DEF PadAlways, PadDigit
<1>3. \A k \in Signs \cup OneSign : k \notin Special
  BY DEF Letters, Signs, OneSign, Special, Modifiers, LockKeys
<1>4. \A k \in Signs \cup OneSign : k \notin DOMAIN PadAlways /\ k \notin DOMAIN PadDigit
  BY <1>1 DEF Letters, Signs, OneSign
<1>5. \A k \in Signs \cup OneSign : k \notin DOMAIN Keypad
  BY DEF Letters, Signs, OneSign, Keypad
<1>6. "PAD_SLASH" \notin Special /\ "PAD_ENTER" \notin Special /\ "none" \notin Special
  BY DEF Special, Modifiers, LockKeys
<1>. QED
  BY <1>3, <1>4, <1>5, <1>6

\* A key that is not of the keypad is passed on as it is.
LEMMA NotPad ==
  ASSUME NEW x, x[1] \notin DOMAIN PadAlways, x[1] \notin DOMAIN PadDigit
  PROVE  OfPad(x) = x
BY DEF OfPad

\* A letter or sign, with one code.
Mean(k, shift) ==
  CASE k \in DOMAIN Keypad -> Keypad[k][IF shift \/ "NUM_LOCK" \in locks THEN 1 ELSE 2]
    [] k \in OneSign -> Plain(k)
    [] k \in Signs -> IF shift # (k \in Letters /\ "CAPS_LOCK" \in locks)
                      THEN Shifted(k) ELSE Plain(k)
    [] OTHER -> Key(k)

Reads(k, x) ==
  /\ k \in Special => x = Key(k)
  /\ k \notin Special => x[1] \notin Special
  /\ k \notin NamesOf(PowerCodes) => OfPad(x) = Mean(k, shifted)

\* A letter or a sign is read as it is engraved.
LEMMA SignRead ==
  ASSUME NEW k, NEW c, <<k, c>> \in LetterCodes \cup SignCodes
  PROVE  Reads(k, keymap[c][IF caps(keymap[c]) THEN 2 ELSE 1])
<1>. DEFINE row == keymap[c]
<1>1. /\ k \in Signs \cup OneSign /\ row[1] = Plain(k)
      /\ row[2] = IF k \in OneSign THEN Plain(k) ELSE Shifted(k)
  BY LetterRows, SignRows DEF FirstTwo, Signs, Letters, OneSign
<1>2. k \notin Special /\ k \notin DOMAIN PadAlways /\ k \notin DOMAIN PadDigit
      /\ k \notin DOMAIN Keypad
  BY <1>1, Ordinary
<1>3. row[1] \in {Plain(x) : x \in Letters} <=> k \in Letters
  BY <1>1 DEF Plain
<1>4. caps(row) <=> shifted # (k \in Letters /\ "CAPS_LOCK" \in locks)
  BY <1>3 DEF caps
<1>. DEFINE x == row[IF caps(row) THEN 2 ELSE 1]
<1>5. x = Mean(k, shifted)
  <2>1. CASE k \in OneSign
    <3>1. k \notin Signs
      BY <2>1 DEF OneSign, Signs, Letters
    <3>. QED
      BY <1>1, <1>2, <2>1, <3>1 DEF Mean
  <2>2. CASE k \notin OneSign
    BY <1>1, <1>2, <1>4, <2>2 DEF Mean
  <2>. QED
    BY <2>1, <2>2
<1>6. x[1] = k
  BY <1>1 DEF Plain, Shifted
<1>7. OfPad(x) = x
  BY <1>2, <1>6, NotPad
<1>. QED
  BY <1>2, <1>5, <1>6, <1>7 DEF Reads

\* A key without a character is read as its name.
LEMMA NameRead ==
  ASSUME NEW k, NEW c, <<k, c>> \in NameCodes
  PROVE  Reads(k, keymap[c][IF caps(keymap[c]) THEN 2 ELSE 1])
<1>1. /\ k \notin Signs \cup OneSign /\ k \notin DOMAIN Keypad
      /\ keymap[c][IF caps(keymap[c]) THEN 2 ELSE 1] = Key(k)
  BY NameRows DEF FirstTwo
<1>2. k \notin DOMAIN PadAlways /\ k \notin DOMAIN PadDigit
  BY DEF NameCodes, PadAlways, PadDigit
<1>3. Key(k)[1] = k
  BY DEF Key
<1>4. OfPad(Key(k)) = Key(k)
  BY <1>2, <1>3, NotPad
<1>5. Mean(k, shifted) = Key(k)
  BY <1>1 DEF Mean
<1>. QED
  BY <1>1, <1>3, <1>4, <1>5 DEF Reads

\* A key of the keypad is read as it is engraved.
LEMMA PadRead ==
  ASSUME NEW k, NEW c, <<k, c>> \in KeypadCodes
  PROVE  Reads(k, keymap[c][IF caps(keymap[c]) THEN 2 ELSE 1])
<1>. DEFINE row == keymap[c]
<1>1. /\ k \in DOMAIN Keypad /\ row[1] \notin {Plain(x) : x \in Letters}
      /\ row[1][1] \notin Special /\ row[2][1] \notin Special
      /\ OfPad(row[2]) = Keypad[k][1]
      /\ OfPad(row[1]) = Keypad[k][IF "NUM_LOCK" \in locks THEN 1 ELSE 2]
  BY PadRows
<1>2. caps(row) <=> shifted
  BY <1>1 DEF caps, shifted
<1>3. k \notin Special
  BY DEF KeypadCodes, Special, Modifiers, LockKeys
<1>4. k \notin Signs /\ k \notin OneSign
  BY <1>1, Ordinary
<1>5. Mean(k, shifted) = Keypad[k][IF shifted \/ "NUM_LOCK" \in locks THEN 1 ELSE 2]
  BY <1>1, <1>4 DEF Mean
<1>. HIDE DEF row
<1>6. CASE shifted
  BY <1>1, <1>2, <1>3, <1>5, <1>6 DEF Reads, row
<1>7. CASE ~shifted
  BY <1>1, <1>2, <1>3, <1>5, <1>7 DEF Reads, row
<1>. QED
  BY <1>6, <1>7

\* A key that sends E0 is read as it is engraved, if no Shift is down.
LEMMA E0Read ==
  ASSUME NEW k, NEW c, <<k, c>> \in E0Codes, ~shifted
  PROVE  Reads(k, keymap[c][IF caps(keymap[c]) THEN 2 ELSE 3])
<1>. DEFINE x == keymap[c][3]
<1>1. keymap[c][IF caps(keymap[c]) THEN 2 ELSE 3] = x
  BY E0Rows DEF caps, shifted
<1>2. x = IF k = "KP_SLASH" THEN Key("PAD_SLASH")
          ELSE IF k = "KP_ENTER" THEN Key("PAD_ENTER")
          ELSE IF <<k, c>> \in PowerCodes THEN None ELSE Key(k)
  BY E0Rows
<1>. HIDE DEF x
<1>3. k \notin Signs /\ k \notin OneSign
  BY DEF E0Codes, PowerCodes, Signs, Letters, OneSign
<1>4. CASE k = "KP_SLASH"
  <2>1. "KP_SLASH" \in DOMAIN Keypad /\ "PAD_SLASH" \in DOMAIN PadAlways
        /\ "PAD_SLASH" \notin DOMAIN PadDigit /\ "KP_SLASH" \notin Special
    BY DEF Keypad, PadAlways, PadDigit, Special, Modifiers, LockKeys
  <2>2. Keypad["KP_SLASH"] = <<Plain("/"), Plain("/")>> /\ PadAlways["PAD_SLASH"] = Plain("/")
    BY DEF Keypad, PadAlways
  <2>3. x = Key("PAD_SLASH") /\ x[1] = "PAD_SLASH"
    BY <1>2, <1>4 DEF Key
  <2>4. OfPad(x) = Plain("/")
    BY <2>1, <2>2, <2>3 DEF OfPad
  <2>5. Mean(k, shifted) = Plain("/")
    BY <1>3, <1>4, <2>1, <2>2 DEF Mean
  <2>. QED
    BY <1>1, <1>4, <2>1, <2>3, <2>4, <2>5, Ordinary DEF Reads
<1>5. CASE k = "KP_ENTER"
  <2>1. "KP_ENTER" \in DOMAIN Keypad /\ "PAD_ENTER" \in DOMAIN PadAlways
        /\ "PAD_ENTER" \notin DOMAIN PadDigit /\ "KP_ENTER" \notin Special
    BY DEF Keypad, PadAlways, PadDigit, Special, Modifiers, LockKeys
  <2>2. Keypad["KP_ENTER"] = <<Key("ENTER"), Key("ENTER")>> /\ PadAlways["PAD_ENTER"] = Key("ENTER")
    BY DEF Keypad, PadAlways
  <2>3. x = Key("PAD_ENTER") /\ x[1] = "PAD_ENTER"
    BY <1>2, <1>5 DEF Key
  <2>4. OfPad(x) = Key("ENTER")
    BY <2>1, <2>2, <2>3 DEF OfPad
  <2>5. Mean(k, shifted) = Key("ENTER")
    BY <1>3, <1>5, <2>1, <2>2 DEF Mean
  <2>. QED
    BY <1>1, <1>5, <2>1, <2>3, <2>4, <2>5, Ordinary DEF Reads
<1>6. CASE <<k, c>> \in PowerCodes
  <2>1. k \in NamesOf(PowerCodes) /\ k \notin {"KP_SLASH", "KP_ENTER"}
    BY <1>6 DEF PowerCodes, NamesOf
  <2>2. k \notin Special
    BY <1>6 DEF PowerCodes, Special, Modifiers, LockKeys
  <2>3. x[1] = "none"
    BY <1>2, <1>6, <2>1 DEF None, Key
  <2>. QED
    BY <1>1, <2>1, <2>2, <2>3, Ordinary DEF Reads
<1>7. CASE k \notin {"KP_SLASH", "KP_ENTER"} /\ <<k, c>> \notin PowerCodes
  <2>1. x = Key(k) /\ x[1] = k
    BY <1>2, <1>7 DEF Key
  <2>2. k \notin DOMAIN Keypad /\ k \notin DOMAIN PadAlways /\ k \notin DOMAIN PadDigit
    BY <1>7 DEF E0Codes, Keypad, PadAlways, PadDigit
  <2>3. OfPad(x) = x /\ Mean(k, shifted) = Key(k)
    BY <1>3, <2>1, <2>2, NotPad DEF Mean
  <2>. QED
    BY <1>1, <2>1, <2>3 DEF Reads
<1>. QED
  BY <1>4, <1>5, <1>6, <1>7

\* What keyboard_read makes of a key with one code, or with E0 and no Shift.
LEMMA KeyRead ==
  ASSUME NEW k \in DOMAIN Make \ Whole, k \in E0Keys => ~shifted
  PROVE  /\ make(Make[k]) /\ Reads(k, key(Make[k]))
         /\ ~make(Break[k]) /\ Reads(k, key(Break[k]))
<1>1. CASE \E c \in 1 .. 88 : OneCode(k, c)
  <2>1. PICK c \in 1 .. 88 : OneCode(k, c)
    BY <1>1
  <2>2. Reads(k, keymap[c][IF caps(keymap[c]) THEN 2 ELSE 1])
    BY <2>1, SignRead, NameRead, PadRead DEF OneCode, OneCodes
  <2>. DEFINE x == keymap[c][IF caps(keymap[c]) THEN 2 ELSE 1]
  <2>3. /\ make(<<c>>) /\ ~make(<<c + 128>>)
        /\ key(<<c>>) = x /\ key(<<c + 128>>) = x
    BY DecodeOne
  <2>4. Make[k] = <<c>> /\ Break[k] = <<c + 128>>
    BY <2>1 DEF OneCode
  <2>. HIDE DEF x
  <2>. QED
    BY <2>2, <2>3, <2>4, ZenonT(40) DEF x
<1>2. CASE \E c \in 1 .. 99 : E0Code(k, c)
  <2>1. PICK c \in 1 .. 99 : E0Code(k, c)
    BY <1>2
  <2>2. Len(Make[k]) = 2 /\ Make[k][1] = E0
    BY <2>1 DEF E0Code
  <2>3. \A s \in Long : Len(s) # 2
    BY DEF Long
  <2>4. k \in E0Keys
    BY <2>2, <2>3 DEF E0Keys
  <2>5. Reads(k, keymap[c][IF caps(keymap[c]) THEN 2 ELSE 3])
    BY <2>1, <2>4, E0Read DEF E0Code
  <2>. DEFINE x == keymap[c][IF caps(keymap[c]) THEN 2 ELSE 3]
  <2>6. /\ make(<<E0, c>>) /\ ~make(<<E0, c + 128>>)
        /\ key(<<E0, c>>) = x /\ key(<<E0, c + 128>>) = x
    BY DecodeE0
  <2>7. Make[k] = <<E0, c>> /\ Break[k] = <<E0, c + 128>>
    BY <2>1 DEF E0Code
  <2>. HIDE DEF x
  <2>. QED
    BY <2>5, <2>6, <2>7, ZenonT(40) DEF x
<1>. QED
  BY <1>1, <1>2, KeyCodes

\* What the person means depends on Shift and the locks only.
LEMMA MeaningRead ==
  ASSUME NEW k, NEW down, (down \cap Shifts # {}) = shifted \/ k \in Shifts
  PROVE  Meaning(k, down, locks) = Mean(k, shifted)
<1>1. CASE (down \cap Shifts # {}) = shifted
  BY <1>1 DEF Meaning, Mean
<1>2. CASE k \in Shifts
  <2>1. k \notin DOMAIN Keypad /\ k \notin OneSign /\ k \notin Signs
    BY <1>2, Ordinary DEF Shifts, Special, Modifiers, Keypad
  <2>. QED
    BY <2>1 DEF Meaning, Mean
<1>. QED
  BY <1>1, <1>2

-----------------------------------------------------------------------------
(* Where keyboard_read stops *)

Byte == 0 .. 255

\* IsStrictPrefix, element by element.
LEMMA StrictPrefix ==
  ASSUME NEW s \in Seq(Byte), NEW u \in Seq(Byte)
  PROVE  IsStrictPrefix(s, u) <=> Len(s) < Len(u) /\ \A j \in 1 .. Len(s) : s[j] = u[j]
<1>1. SubSeq(s, 1, Len(s)) = s
  BY SubSeqFull
<1>2. ASSUME Len(s) =< Len(u)
      PROVE  SubSeq(u, 1, Len(s)) = s <=> \A j \in 1 .. Len(s) : s[j] = u[j]
  <2>. DEFINE p == SubSeq(u, 1, Len(s))
  <2>1. p \in Seq(Byte) /\ Len(p) = Len(s) /\ \A j \in 1 .. Len(s) : p[j] = u[j]
    BY <1>2
  <2>. HIDE DEF p
  <2>2. p = s <=> \A j \in 1 .. Len(s) : s[j] = p[j]
    BY <2>1, SeqEqual
  <2>. QED
    BY <2>1, <2>2 DEF p
<1>3. ASSUME Len(s) = Len(u), \A j \in 1 .. Len(s) : s[j] = u[j] PROVE s = u
  BY <1>3, SeqEqual
<1>. QED
  BY <1>1, <1>2, <1>3 DEF IsStrictPrefix, IsPrefix

\* What the codes of a key, or an acknowledgement, can be.
Shaped(C) ==
  \/ C \in Long
  \/ \E c \in Byte \ {E0, E1} : C = <<c>>
  \/ \E c \in Byte \ {\h2A, \hB7} : C = <<E0, c>>

\* The codes that keyboard_read compares as a whole.
LEMMA LongIs ==
  /\ \A s \in Long : s \in Seq(Byte) /\ Len(s) \in {4, 6}
  /\ \A s \in Long : Len(s) = 6 => s[1] = E1
  /\ \A s \in Long : Len(s) = 4 => s[1] = E0
  /\ \A s \in Long : s[1] \in {E0, E1} /\ (s[1] = E0 => s[2] \in {\h2A, \hB7})
  /\ <<E0, \h2A, E0, \h37>> \in Long /\ E0 # E1
BY DEF Long, E0, E1, Byte

\* None of them is as short as what other keys send.
LEMMA LongLen == \A s \in Long : Len(s) \notin {1, 2}
BY DEF Long

\* Such codes are one to six bytes.
LEMMA ShapeIs ==
  ASSUME NEW C, Shaped(C)
  PROVE  C \in Seq(Byte) /\ Len(C) \in 1 .. 6
<1>1. E0 \in Byte
  BY DEF E0, Byte
<1>2. CASE C \in Long
  BY <1>2, LongIs
<1>3. ASSUME NEW c \in Byte, C = <<c>> PROVE C \in Seq(Byte) /\ Len(C) \in 1 .. 6
  BY <1>3
<1>4. ASSUME NEW c \in Byte, C = <<E0, c>> PROVE C \in Seq(Byte) /\ Len(C) \in 1 .. 6
  BY <1>1, <1>4
<1>. QED
  BY <1>2, <1>3, <1>4 DEF Shaped

\* keyboard_read stops at the end of a key's codes, and not before.
LEMMA StopsThere ==
  ASSUME NEW C, Shaped(C), NEW s \in Seq(Byte), Len(s) \in 1 .. Len(C),
         \A j \in 1 .. Len(s) : s[j] = C[j]
  PROVE  /\ Incomplete(s) <=> Len(s) < Len(C)
         /\ Len(s) = Len(C) => s = C
<1>1. C \in Seq(Byte) /\ Len(C) \in 1 .. 6
  BY ShapeIs
<1>2. Len(s) = Len(C) => s = C
  BY <1>1, SeqEqual
<1>3. Incomplete(s) <=> \E u \in Long : Len(s) < Len(u) /\ \A j \in 1 .. Len(s) : s[j] = u[j]
  BY LongIs, StrictPrefix DEF Incomplete
<1>4. ASSUME Len(s) < Len(C) PROVE Incomplete(s)
  <2>1. CASE C \in Long
    BY <1>3, <1>4, <2>1
  <2>2. CASE \E c \in Byte \ {\h2A, \hB7} : C = <<E0, c>>
    <3>. DEFINE u == <<E0, \h2A, E0, \h37>>
    <3>1. PICK c : C = <<E0, c>>
      BY <2>2
    <3>a. Len(C) = 2 /\ C[1] = E0
      BY <3>1
    <3>2. Len(s) = 1 /\ s[1] = C[1] /\ C[1] = E0
      BY <1>4, <3>a
    <3>3. u[1] = E0 /\ Len(u) = 4 /\ u \in Long
      BY LongIs
    <3>. HIDE DEF u
    <3>4. Len(s) < Len(u) /\ \A j \in 1 .. Len(s) : s[j] = u[j]
      BY <3>2, <3>3
    <3>. QED
      BY <1>3, <3>3, <3>4
  <2>. QED
    BY <1>4, <2>1, <2>2 DEF Shaped
<1>5. ASSUME Len(s) = Len(C), NEW u \in Long, Len(s) < Len(u),
             \A j \in 1 .. Len(s) : s[j] = u[j]
      PROVE  FALSE
  <2>1. s[1] = u[1] /\ s[1] = C[1] /\ (Len(s) > 1 => s[2] = u[2] /\ s[2] = C[2])
    BY <1>5
  <2>2. CASE C \in Long
    BY <1>5, <2>1, <2>2, LongIs, SMTT(40)
  <2>3. ASSUME NEW c \in Byte \ {E0, E1}, C = <<c>> PROVE FALSE
    <3>1. C[1] = c
      BY <2>3
    <3>. QED
      BY <2>1, <3>1, LongIs
  <2>4. ASSUME NEW c \in Byte \ {\h2A, \hB7}, C = <<E0, c>> PROVE FALSE
    <3>1. C[1] = E0 /\ C[2] = c /\ Len(C) = 2
      BY <2>4
    <3>2. u[1] = E0 /\ u[2] = c
      BY <1>5, <2>1, <3>1
    <3>. QED
      BY <3>2, LongIs
  <2>. QED
    BY <2>2, <2>3, <2>4 DEF Shaped
<1>. QED
  BY <1>2, <1>3, <1>4, <1>5

\* Print Screen and Pause are apart from the other keys.
LEMMA Apart ==
  "PRINTSCREEN" # "PAUSEBREAK" /\ \A k \in Whole : k \notin NamesOf(OneCodes)
BY Pairs DEF NamesOf

\* What the keys send has this shape.
LEMMA KeysShaped ==
  ASSUME NEW k \in DOMAIN Make
  PROVE  /\ Shaped(Make[k])
         /\ k # "PAUSEBREAK" => Shaped(Break[k]) /\ Break[k] # <<>>
         /\ k = "PAUSEBREAK" => Break[k] = <<>>
         /\ k \in Whole <=> Make[k] \in Long
         /\ k = "PRINTSCREEN" => Break[k] \in Long
         /\ k \notin Whole => Break[k] \notin Long
<1>1. CASE k = "PAUSEBREAK"
  <2>1. Make[k] = <<E1, \h1D, \h45, E1, \h9D, \hC5>>
    BY <1>1, Apart DEF Make, Whole
  <2>2. Break[k] = <<>>
    BY <1>1 DEF Break
  <2>. QED
    BY <1>1, <2>1, <2>2 DEF Shaped, Whole, Long
<1>2. CASE k = "PRINTSCREEN"
  <2>1. Make[k] = <<E0, \h2A, E0, \h37>>
    BY <1>2, Apart DEF Make, Whole
  <2>2. Break[k] \in Long /\ Break[k] # <<>>
    BY <1>2 DEF Break, Long
  <2>. QED
    BY <1>2, <2>1, <2>2 DEF Shaped, Whole, Long
<1>3. CASE k \notin Whole /\ \E c \in 1 .. 88 : OneCode(k, c)
  <2>1. PICK c \in 1 .. 88 : Make[k] = <<c>> /\ Break[k] = <<c + 128>>
    BY <1>3 DEF OneCode
  <2>2. c \in Byte \ {E0, E1} /\ c + 128 \in Byte \ {E0, E1}
    BY DEF Byte, E0, E1
  <2>3. Make[k] \notin Long /\ Break[k] \notin Long
    <3>1. Len(Make[k]) \in {1, 2} /\ Len(Break[k]) \in {1, 2}
      BY <2>1
    <3>. QED
      BY <3>1, LongLen, Zenon
  <2>. QED
    BY <1>3, <2>1, <2>2, <2>3 DEF Shaped, Whole
<1>4. CASE k \notin Whole /\ \E c \in 1 .. 99 : E0Code(k, c)
  <2>1. PICK c \in 1 .. 99 : 
          Make[k] = <<E0, c>> /\ Break[k] = <<E0, c + 128>> /\ <<k, c>> \in E0Codes
    BY <1>4 DEF E0Code
  <2>2. c \in Byte \ {\h2A, \hB7} /\ c + 128 \in Byte \ {\h2A, \hB7}
    BY <2>1, E0Rows DEF Byte
  <2>3. Make[k] \notin Long /\ Break[k] \notin Long
    <3>1. Len(Make[k]) \in {1, 2} /\ Len(Break[k]) \in {1, 2}
      BY <2>1
    <3>. QED
      BY <3>1, LongLen, Zenon
  <2>. QED
    BY <1>4, <2>1, <2>2, <2>3 DEF Shaped, Whole
<1>. QED
  BY <1>1, <1>2, <1>3, <1>4, KeyCodes DEF Whole

\* So has an acknowledgement.
LEMMA AckShaped == Shaped(<<KB_ACK>>) /\ <<KB_ACK>> \notin Long
<1>1. KB_ACK \in Byte \ {E0, E1}
  BY DEF KB_ACK, Byte, E0, E1
<1>. QED
  BY <1>1, LongIs DEF Shaped

-----------------------------------------------------------------------------
(* The lights *)

\* Any step of the careful person is a step of the person.
LEMMA CarefulIsNext == [CarefulNext]_vars => [Next]_vars
  BY DEF CarefulNext, Next

\* What the controller and the keyboard know of the locks, at each point of
\* set_leds.  The value sent last may still be on its way ("read", "last_ack"),
\* even when the next call has begun ("code"), but not when kb_wait let that
\* call send its first command ("ack", "value").
Sent(ls)   == ibf = <<"value", ls>> /\ expects
Obeyed     == ibf = <<>> /\ ~expects
LightsInv ==
  /\ pc \in {"code", "ack", "value", "last_ack", "read"}
  /\ pc = "code" => Obeyed \/ \E ls \in SUBSET LockKeys : Sent(ls)
  /\ pc \in {"ack", "value"} => ibf = <<"LED_CODE">> \/ (ibf = <<>> /\ expects)
  /\ pc \in {"last_ack", "read"} => Sent(locks) \/ (Obeyed /\ leds = locks)
  /\ locks \subseteq LockKeys

\* At the start nothing is on its way to the keyboard.
LEMMA LightsStart == Init => LightsInv
  BY DEF Init, LightsInv, Obeyed, LockKeys

\* A lock key leads from "read" to set_leds, with another set of locks.
LEMMA DecodingKeepsLights ==
  ASSUME LightsInv, MoreToCome \/ DecodeKey \/ DecodeLock  PROVE LightsInv'
<1>1. CASE MoreToCome \/ DecodeKey
  BY <1>1 DEF LightsInv, MoreToCome, DecodeKey, device, Sent, Obeyed
<1>2. CASE DecodeLock
  <2>1. pc = "read" /\ pc' = "code" /\ ibf' = ibf /\ expects' = expects
    BY <1>2 DEF DecodeLock, NextCode, device
  <2>2. locks' \subseteq LockKeys
    BY <1>2 DEF DecodeLock, LightsInv, Toggle
  <2>3. Sent(locks) \/ Obeyed
    BY <2>1 DEF LightsInv
  <2>. QED
    BY <2>1, <2>2, <2>3 DEF LightsInv, Sent, Obeyed
<1>. QED
  BY <1>1, <1>2

\* Each command is sent when the one before was taken.
LEMMA SetLedsKeepsLights == LightsInv /\ SetLeds => LightsInv'
  BY DEF LightsInv, SetLeds, set_leds, kb_wait, Sent, Obeyed

\* The keyboard expects a value only after LED_CODE.
LEMMA ObeyKeepsLights ==
  ASSUME LightsInv, Obey  PROVE LightsInv'
<1>1. pc' = pc /\ locks' = locks
  BY DEF Obey, driver
<1>2. CASE expects /\ Len(ibf) = 2
  <2>1. ~expects' /\ ibf' = <<>> /\ leds' = ibf[2]
    BY <1>2 DEF Obey
  <2>2. ibf # <<>> /\ ibf # <<"LED_CODE">>
    BY <1>2
  <2>. QED
    BY <1>1, <2>1, <2>2 DEF LightsInv, Sent, Obeyed
<1>3. CASE ~(expects /\ Len(ibf) = 2)
  <2>1. ibf' = <<>> /\ expects' = (ibf = <<"LED_CODE">>) /\ ibf # <<>>
    BY <1>3 DEF Obey
  <2>2. \A ls : ~Sent(ls)
    BY <1>3 DEF Sent
  <2>3. pc \in {"ack", "value"} /\ ibf = <<"LED_CODE">>
    BY <2>1, <2>2 DEF LightsInv, Obeyed
  <2>. QED
    BY <1>1, <2>1, <2>3 DEF LightsInv, Sent, Obeyed
<1>. QED
  BY <1>2, <1>3

\* Every step keeps what is known of the lights.
LEMMA LightsStep == LightsInv /\ [Next]_vars => LightsInv'
<1> SUFFICES ASSUME LightsInv, [Next]_vars PROVE LightsInv'
  OBVIOUS
<1>1. CASE task_tty
  BY <1>1, DecodingKeepsLights, SetLedsKeepsLights DEF task_tty
<1>2. CASE keyboard_handler
  BY <1>2 DEF keyboard_handler, LightsInv, Sent, Obeyed
<1>3. CASE Obey
  BY <1>3, ObeyKeepsLights
<1>4. ASSUME NEW k \in Keys, Strike(k) \/ Release(k) PROVE LightsInv'
  BY <1>4 DEF Strike, Release, driver, LightsInv, Sent, Obeyed
<1>5. CASE UNCHANGED vars
  BY <1>5 DEF vars, driver, device, LightsInv, Sent, Obeyed
<1>. QED
  BY <1>1, <1>2, <1>3, <1>4, <1>5 DEF Next, System

\* It implies that the lights show the locks between two calls of set_leds.
LEMMA LightsFollow == LightsInv => LedsShowLocks
  BY DEF LightsInv, LedsShowLocks, Sent, Obeyed

\* The lights show the locks when the last command was taken, whatever keys the
\* person strikes and in whatever order the codes, the acknowledgements and the
\* steps of task_tty come (keyboard.c:161-183).
THEOREM TheLedsShowLocks == Spec => []LedsShowLocks
  BY LightsStart, LightsStep, LightsFollow, PTL DEF Spec

-----------------------------------------------------------------------------
(* Types *)

\* What in_process may be owed.
Entry(k, down, on) == [key |-> Meaning(k, down, on), flags |-> down \cap Modifiers]
Entries == {Entry(k, down, on) : k \in Keys, down \in SUBSET Keys, on \in SUBSET LockKeys}

Typed ==
  /\ kb_in \in Seq(Byte) /\ Len(kb_in) =< KB_IN_BYTES
  /\ wire \in Seq(Byte) /\ port \in Byte
  /\ got \in Seq(Byte) /\ (got = <<>> \/ Incomplete(got))
  /\ mods \subseteq Modifiers /\ held \subseteq Keys
  /\ leds \subseteq LockKeys /\ typed \subseteq LockKeys
  /\ owed \in Seq(Entries)
  /\ LightsInv

\* The invariant implies the type invariant of the run.
LEMMA TypedFollows == Typed => TypeOK
<1>. SUFFICES ASSUME Typed PROVE TypeOK
  OBVIOUS
<1>1. ibf \in {<<>>, <<"LED_CODE">>} \/ (Len(ibf) = 2 /\ expects)
  BY DEF Typed, LightsInv, Sent, Obeyed
<1>2. \A i \in 1 .. Len(owed) : DOMAIN owed[i] = {"key", "flags"}
  <2>1. \A e \in Entries : DOMAIN e = {"key", "flags"}
    BY DEF Entries, Entry
  <2>. QED
    BY <2>1 DEF Typed
<1>. QED
  BY <1>1, <1>2 DEF Typed, TypeOK, LightsInv, Byte

\* It holds at the start.
LEMMA TypedStart == Init => Typed
<1>. SUFFICES ASSUME Init PROVE Typed
  OBVIOUS
<1>1. LightsInv
  BY LightsStart
<1>2. <<KB_ACK>> \in Seq(Byte) /\ KB_ACK \in Byte /\ 0 \in Byte
  BY DEF KB_ACK, Byte
<1>3. kb_in \in Seq(Byte) /\ Len(kb_in) =< KB_IN_BYTES /\ got \in Seq(Byte) /\ got = <<>>
  BY BoundsAssumption DEF Init
<1>4. wire \in Seq(Byte) /\ port \in Byte
  <2>1. wire \in {<<>>, <<KB_ACK>>} /\ port \in {0, KB_ACK} /\ <<>> \in Seq(Byte)
    BY DEF Init
  <2>. QED
    BY <1>2, <2>1
<1>5. mods \subseteq Modifiers /\ held \subseteq Keys
      /\ leds \subseteq LockKeys /\ typed \subseteq LockKeys
  BY DEF Init, LockKeys
<1>6. owed \in Seq(Entries)
  BY DEF Init
<1>. QED
  BY <1>1, <1>3, <1>4, <1>5, <1>6 DEF Typed

\* Every step of the driver, the keyboard and the person keeps it.
LEMMA TypedStep == Typed /\ [Next]_vars => Typed'
<1>. SUFFICES ASSUME Typed, [Next]_vars PROVE Typed'
  OBVIOUS
<1>1. LightsInv'
  BY LightsStep DEF Typed
<1>2. CASE MoreToCome \/ DecodeKey \/ DecodeLock
  <2>1. kb_in # <<>> /\ kb_in' = Tail(kb_in)
    BY <1>2 DEF MoreToCome, DecodeKey, DecodeLock, NextCode
  <2>2. kb_in' \in Seq(Byte) /\ Len(kb_in') =< KB_IN_BYTES /\ codes \in Seq(Byte)
    BY <2>1, BoundsAssumption, HeadTailProperties, AppendProperties DEF Typed, codes
  <2>3. got' \in Seq(Byte) /\ (got' = <<>> \/ Incomplete(got'))
    <3>1. got' = <<>> \/ (got' = codes /\ Incomplete(codes))
      BY <1>2 DEF MoreToCome, DecodeKey, DecodeLock
    <3>2. <<>> \in Seq(Byte)
      OBVIOUS
    <3>. QED
      BY <2>2, <3>1, <3>2, Zenon
  <2>4. mods' \subseteq Modifiers
    BY <1>2 DEF MoreToCome, DecodeKey, DecodeLock, Typed, FlagOf, Modifiers
  <2>5. owed' \in Seq(Entries)
    BY <1>2, HeadTailProperties DEF MoreToCome, DecodeKey, DecodeLock, Typed, Report
  <2>6. UNCHANGED <<device, person>>
    BY <1>2 DEF MoreToCome, DecodeKey, DecodeLock
  <2>. QED
    BY <1>1, <2>2, <2>3, <2>4, <2>5, <2>6 DEF Typed, device, person
<1>3. CASE SetLeds
  <2>1. owed' \in Seq(Entries)
    BY <1>3, HeadTailProperties DEF SetLeds, set_leds, Report, Typed
  <2>. QED
    BY <1>1, <1>3, <2>1 DEF SetLeds, person, Typed
<1>4. CASE keyboard_handler
  <2>1. Head(wire) \in Byte /\ Tail(wire) \in Seq(Byte)
    BY <1>4, HeadTailProperties DEF keyboard_handler, Typed
  <2>2. kb_in' \in Seq(Byte) /\ Len(kb_in') =< KB_IN_BYTES
    BY <1>4, <2>1, AppendProperties, BoundsAssumption DEF keyboard_handler, Room, Typed
  <2>. QED
    BY <1>1, <1>4, <2>1, <2>2 DEF keyboard_handler, person, Typed
<1>5. CASE Obey
  <2>1. leds' \subseteq LockKeys
    BY <1>5 DEF Obey, Typed, LightsInv, Sent, Obeyed
  <2>2. wire' \in Seq(Byte)
    BY <1>5, AppendProperties DEF Obey, Typed, KB_ACK, Byte
  <2>. QED
    BY <1>1, <1>5, <2>1, <2>2 DEF Obey, driver, person, Typed
<1>6. ASSUME NEW k \in Keys, Strike(k) PROVE Typed'
  <2>1. wire' \in Seq(Byte)
    BY <1>6, KeysAssumption, KeysShaped, ShapeIs, ConcatProperties DEF Strike, Typed
  <2>2. held' \subseteq Keys /\ typed' \subseteq LockKeys
    BY <1>6 DEF Strike, Typed, Toggle
  <2>3. [key |-> Meaning(k, held', typed'), flags |-> held' \cap Modifiers] \in Entries
    <3>1. PICK down \in SUBSET Keys, on \in SUBSET LockKeys : down = held' /\ on = typed'
      BY <2>2
    <3>2. Entry(k, down, on) \in Entries
      BY DEF Entries
    <3>. QED
      BY <3>1, <3>2, Zenon DEF Entry
  <2>4. owed' \in Seq(Entries)
    BY <1>6, <2>3, AppendProperties DEF Strike, Typed
  <2>. QED
    BY <1>1, <1>6, <2>1, <2>2, <2>4 DEF Strike, driver, Typed
<1>7. ASSUME NEW k \in Keys, Release(k) PROVE Typed'
  <2>1. Break[k] \in Seq(Byte)
    <3>1. k \in DOMAIN Make /\ <<>> \in Seq(Byte)
      BY KeysAssumption
    <3>. QED
      BY <3>1, KeysShaped, ShapeIs
  <2>2. wire' \in Seq(Byte)
    BY <1>7, <2>1, ConcatProperties DEF Release, Typed
  <2>. QED
    BY <1>1, <1>7, <2>2 DEF Release, driver, Typed
<1>8. CASE UNCHANGED vars
  BY <1>1, <1>8 DEF vars, driver, device, person, Typed
<1>. QED
  BY <1>2, <1>3, <1>4, <1>5, <1>6, <1>7, <1>8 DEF Next, System, task_tty

\* The codes, flags and locks have their types, and the ring is never fuller than
\* its size, whatever keys are struck (keyboard.c:42-60).
THEOREM TypeCorrect == Spec => []TypeOK
  BY TypedStart, TypedStep, TypedFollows, PTL DEF Spec

-----------------------------------------------------------------------------
(* Items: acknowledgements and keys that went down or were let go, in the order
   they were sent *)

IsItem(x) ==
  \/ x.kind = "ack"
  \/ x.kind = "down" /\ x.key \in Keys
  \/ x.kind = "up" /\ x.key \in Keys \ {"PAUSEBREAK"}

Codes(x) == IF x.kind = "ack" THEN <<KB_ACK>>
            ELSE IF x.kind = "down" THEN Make[x.key] ELSE Break[x.key]

\* The keys a careful person may hold together.
Fit(h) ==
  /\ h \subseteq Keys \ {"ALT_R", "PAUSEBREAK"}
  /\ h \cap Shifts = {} \/ h \cap E0Keys = {}

\* A point between two items: codes, lock keys (counted twice) and reports so
\* far, the keys that are down and the locks.
IsPoint(p) ==
  /\ p.pos \in Nat /\ p.extra \in Nat /\ p.cnt \in Nat
  /\ Fit(p.held) /\ p.on \subseteq LockKeys

Counts(x) == x.kind = "down" /\ Make[x.key] \notin Long
Leads(x, p, q) ==
  /\ q.pos = p.pos + Len(Codes(x))
  /\ q.cnt = p.cnt + (IF Counts(x) THEN 1 ELSE 0)
  /\ q.extra = p.extra + (IF x.kind = "down" /\ x.key \in LockKeys THEN 2 ELSE 0)
  /\ q.on = IF x.kind = "down" /\ x.key \in LockKeys THEN Toggle(p.on, x.key) ELSE p.on
  /\ x.kind = "ack" => q.held = p.held
  /\ x.kind = "down" => q.held = IF x.key = "PAUSEBREAK" THEN p.held ELSE p.held \cup {x.key}
  /\ x.kind = "up" => x.key \in p.held /\ q.held = p.held \ {x.key}

Before(p, q) ==
  /\ p.pos =< q.pos /\ p.cnt =< q.cnt /\ p.extra =< q.extra
  /\ q.extra - p.extra =< 2 * (q.pos - p.pos)

Line(b, t, lo, hi) ==
  /\ lo \in Nat /\ hi \in Nat /\ lo =< hi
  /\ \A i \in lo .. hi : IsPoint(t[i])
  /\ \A i \in lo + 1 .. hi : IsItem(b[i]) /\ Leads(b[i], t[i - 1], t[i])
  /\ \A i, j \in lo .. hi : i =< j => Before(t[i], t[j])

\* What is on its way carries the items, and what is owed lists the reports.
Carries(s, b, t, lo, hi) ==
  /\ Len(s) = t[hi].pos - t[lo].pos
  /\ \A i \in lo + 1 .. hi : \A j \in 1 .. Len(Codes(b[i])) :
       s[(t[i - 1].pos - t[lo].pos) + j] = Codes(b[i])[j]
Lists(s, b, t, lo, hi, first) ==
  /\ Len(s) = t[hi].cnt - first
  /\ \A i \in lo + 1 .. hi : Counts(b[i]) =>
       s[t[i].cnt - first] = Entry(b[i].key, t[i].held, t[i].on)

\* The codes of an item have the shape of a key's codes.
LEMMA ItemShaped ==
  ASSUME NEW x, IsItem(x)
  PROVE  Shaped(Codes(x)) /\ Codes(x) \in Seq(Byte) /\ Len(Codes(x)) \in 1 .. 6
<1>1. Shaped(Codes(x))
  BY KeysAssumption, KeysShaped, AckShaped DEF IsItem, Codes
<1>. QED
  BY <1>1, ShapeIs

\* The first item leaves.
LEMMA LineLess ==
  ASSUME NEW b, NEW t, NEW lo, NEW hi, Line(b, t, lo, hi), lo < hi
  PROVE  Line(b, t, lo + 1, hi)
BY DEF Line

\* What is on its way after it carries the remaining items.
LEMMA CarriesLess ==
  ASSUME NEW b, NEW t, NEW lo, NEW hi, Line(b, t, lo, hi), lo < hi,
         NEW s \in Seq(Byte), NEW r \in Seq(Byte),
         Carries(s, b, t, lo, hi), s = Codes(b[lo + 1]) \o r
  PROVE  Carries(r, b, t, lo + 1, hi)
<1>. DEFINE C == Codes(b[lo + 1])
<1>1. /\ lo + 1 \in lo + 1 .. hi /\ lo + 1 \in lo .. hi /\ (lo + 1) - 1 = lo
      /\ IsPoint(t[lo]) /\ IsPoint(t[hi]) /\ IsPoint(t[lo + 1])
  BY DEF Line
<1>2. t[lo + 1].pos = t[lo].pos + Len(C) /\ C \in Seq(Byte)
  BY <1>1, ItemShaped DEF Line, Leads
<1>3. Len(s) = Len(C) + Len(r) /\ \A j \in 1 .. Len(r) : s[Len(C) + j] = r[j]
  <2>. HIDE DEF C
  <2>1. s = C \o r
    BY DEF C
  <2>. QED
    BY <1>2, <2>1
<1>. HIDE DEF C
<1>4. Len(r) = t[hi].pos - t[lo + 1].pos
  <2>1. Len(s) = t[hi].pos - t[lo].pos
    BY DEF Carries
  <2>2. t[lo].pos \in Nat /\ t[hi].pos \in Nat /\ t[lo + 1].pos \in Nat
        /\ Len(C) \in Nat /\ Len(r) \in Nat
    BY <1>1, <1>2, SMTT(40) DEF IsPoint
  <2>. QED
    BY <1>2, <1>3, <2>1, <2>2, SMTT(40)
<1>5. ASSUME NEW i \in lo + 2 .. hi, NEW j \in 1 .. Len(Codes(b[i]))
      PROVE  r[(t[i - 1].pos - t[lo + 1].pos) + j] = Codes(b[i])[j]
  <2>1. i \in lo + 1 .. hi /\ i - 1 \in lo + 1 .. hi /\ i \in lo .. hi /\ i - 1 \in lo .. hi
    BY <1>1 DEF Line
  <2>2. IsPoint(t[i]) /\ IsPoint(t[i - 1]) /\ Before(t[lo + 1], t[i - 1]) /\ Before(t[i], t[hi])
        /\ Leads(b[i], t[i - 1], t[i]) /\ Len(Codes(b[i])) \in Nat
    BY <1>1, <2>1, ItemShaped DEF Line
  <2>. DEFINE m == (t[i - 1].pos - t[lo + 1].pos) + j
  <2>3. m \in 1 .. Len(r) /\ Len(C) + m = (t[i - 1].pos - t[lo].pos) + j
    <3>1. /\ t[lo].pos \in Nat /\ t[hi].pos \in Nat /\ t[lo + 1].pos \in Nat
          /\ t[i].pos \in Nat /\ t[i - 1].pos \in Nat /\ Len(C) \in Nat
      BY <1>1, <1>2, <2>2 DEF IsPoint
    <3>2. /\ t[lo + 1].pos =< t[i - 1].pos /\ t[i].pos =< t[hi].pos
          /\ t[i].pos = t[i - 1].pos + Len(Codes(b[i]))
      BY <2>2 DEF Before, Leads
    <3>3. PICK p0 \in Nat, p1 \in Nat, pa \in Nat, pb \in Nat, ph \in Nat, n \in Nat, l \in Nat :
            /\ p0 = t[lo].pos /\ p1 = t[lo + 1].pos /\ pa = t[i - 1].pos /\ pb = t[i].pos
            /\ ph = t[hi].pos /\ n = Len(C) /\ l = Len(Codes(b[i]))
      BY <2>2, <3>1, Zenon
    <3>4. p1 = p0 + n /\ p1 =< pa /\ pb =< ph /\ pb = pa + l /\ j \in 1 .. l /\ Len(r) = ph - p1
      BY <1>2, <1>4, <3>2, <3>3, Zenon
    <3>5. (pa - p1) + j \in 1 .. Len(r) /\ n + ((pa - p1) + j) = (pa - p0) + j
      BY <3>4
    <3>. QED
      BY <3>3, <3>5, Zenon
  <2>4. s[(t[i - 1].pos - t[lo].pos) + j] = Codes(b[i])[j]
    BY <2>1 DEF Carries
  <2>. HIDE DEF m
  <2>. QED
    BY <1>3, <2>3, <2>4 DEF m
<1>. QED
  BY <1>4, <1>5 DEF Carries, Line

\* The lists of the remaining items are unchanged when the first leaves.
LEMMA ListsLess ==
  ASSUME NEW b, NEW t, NEW lo, NEW hi, Line(b, t, lo, hi), lo < hi,
         NEW s, NEW first, Lists(s, b, t, lo, hi, first)
  PROVE  Lists(s, b, t, lo + 1, hi, first)
BY DEF Line, Lists

\* One report is made.
LEMMA ListsTail ==
  ASSUME NEW b, NEW t, NEW lo, NEW hi, Line(b, t, lo, hi),
         NEW s \in Seq(Entries), NEW first \in Nat, first + 1 = t[lo].cnt,
         Lists(s, b, t, lo, hi, first)
  PROVE  s # <<>> /\ Lists(Tail(s), b, t, lo, hi, first + 1)
<1>1. /\ lo \in lo .. hi /\ hi \in lo .. hi /\ IsPoint(t[lo]) /\ IsPoint(t[hi])
      /\ Before(t[lo], t[hi])
  BY DEF Line
<1>2. t[lo].cnt \in Nat /\ t[hi].cnt \in Nat /\ t[lo].cnt =< t[hi].cnt
  BY <1>1 DEF IsPoint, Before
<1>3. Len(s) = t[hi].cnt - first
  BY DEF Lists
<1>4. Len(s) > 0 /\ s # <<>>
  BY <1>2, <1>3
<1>5. /\ Len(Tail(s)) = Len(s) - 1
      /\ \A m \in 1 .. Len(Tail(s)) : Tail(s)[m] = s[m + 1]
  BY <1>4, HeadTailProperties
<1>6. Len(Tail(s)) = t[hi].cnt - (first + 1)
  BY <1>2, <1>3, <1>5
<1>7. ASSUME NEW i \in lo + 1 .. hi, Counts(b[i])
      PROVE  Tail(s)[t[i].cnt - (first + 1)] = Entry(b[i].key, t[i].held, t[i].on)
  <2>1. i \in lo .. hi /\ i - 1 \in lo .. hi
    BY DEF Line
  <2>2. /\ IsPoint(t[i]) /\ IsPoint(t[i - 1]) /\ Before(t[lo], t[i - 1]) /\ Before(t[i], t[hi])
        /\ t[i].cnt = t[i - 1].cnt + 1
    <3>1. Leads(b[i], t[i - 1], t[i])
      BY DEF Line
    <3>2. /\ IsPoint(t[i]) /\ IsPoint(t[i - 1]) /\ Before(t[lo], t[i - 1]) /\ Before(t[i], t[hi])
      BY <1>1, <2>1 DEF Line
    <3>. QED
      BY <1>7, <3>1, <3>2 DEF Leads
  <2>3. /\ t[i].cnt \in Nat /\ t[i - 1].cnt \in Nat
        /\ t[lo].cnt =< t[i - 1].cnt /\ t[i].cnt =< t[hi].cnt
    BY <2>2 DEF IsPoint, Before
  <2>4. PICK c \in Nat, ca \in Nat, cl \in Nat, ch \in Nat :
          c = t[i].cnt /\ ca = t[i - 1].cnt /\ cl = t[lo].cnt /\ ch = t[hi].cnt
    BY <1>2, <2>3, Zenon
  <2>a. c = ca + 1 /\ cl =< ca /\ c =< ch /\ first + 1 = cl /\ Len(Tail(s)) = ch - (first + 1)
    BY <1>6, <2>2, <2>3, <2>4, Zenon
  <2>5. c - (first + 1) \in 1 .. Len(Tail(s)) /\ (c - (first + 1)) + 1 = c - first
    BY <2>a
  <2>6. s[c - first] = Entry(b[i].key, t[i].held, t[i].on)
    BY <1>7, <2>4 DEF Lists
  <2>7. Tail(s)[c - (first + 1)] = s[c - first]
    BY <1>5, <2>5
  <2>. QED
    BY <2>4, <2>6, <2>7
<1>. QED
  BY <1>4, <1>6, <1>7 DEF Lists

\* An item comes in at the end.
More(c, u, b, t, lo, hi, x, q) ==
  /\ \A i \in lo .. hi : c[i] = b[i] /\ u[i] = t[i]
  /\ c[hi + 1] = x /\ u[hi + 1] = q

\* An item comes in at the end.
LEMMA LineMore ==
  ASSUME NEW b, NEW t, NEW lo, NEW hi, Line(b, t, lo, hi), NEW x, NEW q,
         IsItem(x), IsPoint(q), Leads(x, t[hi], q),
         NEW c, NEW u, More(c, u, b, t, lo, hi, x, q)
  PROVE  Line(c, u, lo, hi + 1)
<1>1. /\ lo \in Nat /\ hi \in Nat /\ lo =< hi /\ hi \in lo .. hi
      /\ \A i \in lo .. hi : IsPoint(t[i])
  BY DEF Line
<1>2. \A i \in lo .. hi : c[i] = b[i] /\ u[i] = t[i]
  BY DEF More
<1>3. c[hi + 1] = x /\ u[hi + 1] = q
  BY DEF More
<1>4. \A i \in lo .. hi + 1 : i \in lo .. hi \/ i = hi + 1
  BY <1>1
<1>5. \A i \in lo .. hi + 1 : IsPoint(u[i])
  BY <1>1, <1>2, <1>3, <1>4
<1>6. ASSUME NEW i \in lo + 1 .. hi + 1 PROVE IsItem(c[i]) /\ Leads(c[i], u[i - 1], u[i])
  <2>1. CASE i = hi + 1
    BY <1>1, <1>2, <1>3, <2>1
  <2>2. CASE i # hi + 1
    <3>1. i \in lo + 1 .. hi /\ i \in lo .. hi /\ i - 1 \in lo .. hi
      BY <1>1, <2>2
    <3>. QED
      BY <1>2, <3>1 DEF Line
  <2>. QED
    BY <2>1, <2>2
<1>7. ASSUME NEW i \in lo .. hi PROVE Before(t[i], q)
  <2>1. Before(t[i], t[hi]) /\ IsPoint(t[i]) /\ IsPoint(t[hi])
    BY <1>1 DEF Line
  <2>2. Len(Codes(x)) \in 1 .. 6
    BY ItemShaped
  <2>3. Before(t[hi], q)
    <3>1. t[hi].pos \in Nat /\ t[hi].cnt \in Nat /\ t[hi].extra \in Nat
      BY <2>1 DEF IsPoint
    <3>2. /\ q.pos = t[hi].pos + Len(Codes(x))
          /\ q.cnt = t[hi].cnt \/ q.cnt = t[hi].cnt + 1
          /\ q.extra = t[hi].extra \/ q.extra = t[hi].extra + 2
      BY <3>1 DEF Leads
    <3>3. PICK p \in Nat, n \in Nat, e \in Nat, l \in 1 .. 6 :
            p = t[hi].pos /\ n = t[hi].cnt /\ e = t[hi].extra /\ l = Len(Codes(x))
      BY <2>2, <3>1, Zenon
    <3>4. q.pos = p + l /\ (q.cnt = n \/ q.cnt = n + 1) /\ (q.extra = e \/ q.extra = e + 2)
      BY <3>2, <3>3, Zenon
    <3>5. /\ p =< q.pos /\ n =< q.cnt /\ e =< q.extra
          /\ q.extra - e =< 2 * (q.pos - p)
      BY <3>4
    <3>. QED
      BY <3>3, <3>5, Zenon DEF Before
  <2>. QED
    BY <2>1, <2>3 DEF Before, IsPoint
<1>8. Before(q, q)
  BY DEF Before, IsPoint
<1>9. ASSUME NEW i \in lo .. hi + 1, NEW j \in lo .. hi + 1, i =< j
      PROVE  Before(u[i], u[j])
  <2>1. CASE j = hi + 1
    BY <1>2, <1>3, <1>4, <1>7, <1>8, <2>1
  <2>2. CASE j # hi + 1
    <3>1. i \in lo .. hi /\ j \in lo .. hi
      BY <1>1, <1>9, <2>2
    <3>. QED
      BY <1>2, <1>9, <3>1 DEF Line
  <2>. QED
    BY <2>1, <2>2
<1>. QED
  BY <1>1, <1>5, <1>6, <1>9 DEF Line

\* Its codes extend what is on its way.
LEMMA CarriesMore ==
  ASSUME NEW b, NEW t, NEW lo, NEW hi, Line(b, t, lo, hi), NEW x, NEW q,
         IsItem(x), IsPoint(q), Leads(x, t[hi], q),
         NEW c, NEW u, More(c, u, b, t, lo, hi, x, q),
         NEW s \in Seq(Byte), Carries(s, b, t, lo, hi)
  PROVE  Carries(s \o Codes(x), c, u, lo, hi + 1)
<1>1. /\ lo \in Nat /\ hi \in Nat /\ lo =< hi /\ hi \in lo .. hi /\ lo \in lo .. hi
      /\ IsPoint(t[lo]) /\ IsPoint(t[hi]) /\ Before(t[lo], t[hi])
  BY DEF Line
<1>2. \A i \in lo .. hi : c[i] = b[i] /\ u[i] = t[i]
  BY DEF More
<1>3. c[hi + 1] = x /\ u[hi + 1] = q
  BY DEF More
<1>. DEFINE C == Codes(x)
<1>4. C \in Seq(Byte) /\ Len(C) \in Nat
  BY ItemShaped
<1>5. Len(s) = t[hi].pos - t[lo].pos /\ q.pos = t[hi].pos + Len(C)
  BY DEF Carries, Leads
<1>. HIDE DEF C
<1>6. t[lo].pos \in Nat /\ t[hi].pos \in Nat /\ q.pos \in Nat
  BY <1>1 DEF IsPoint
<1>7. /\ Len(s \o C) = Len(s) + Len(C)
      /\ \A m \in 1 .. Len(s) : (s \o C)[m] = s[m]
      /\ \A j \in 1 .. Len(C) : (s \o C)[Len(s) + j] = C[j]
  BY <1>4
<1>8. Len(s \o C) = u[hi + 1].pos - u[lo].pos
  <2>1. u[hi + 1].pos = q.pos /\ u[lo].pos = t[lo].pos
    BY <1>1, <1>2, <1>3
  <2>2. PICK p0 \in Nat, ph \in Nat, n \in Nat : p0 = t[lo].pos /\ ph = t[hi].pos /\ n = Len(C)
    BY <1>4, <1>6, Zenon
  <2>3. Len(s) = ph - p0 /\ q.pos = ph + n /\ Len(s \o C) = Len(s) + n
    BY <1>5, <1>7, <2>2, Zenon
  <2>4. Len(s \o C) = q.pos - p0
    BY <2>3
  <2>. QED
    BY <2>1, <2>2, <2>4, Zenon
<1>9. ASSUME NEW i \in lo + 1 .. hi + 1, NEW j \in 1 .. Len(Codes(c[i]))
      PROVE  (s \o C)[(u[i - 1].pos - u[lo].pos) + j] = Codes(c[i])[j]
  <2>1. CASE i = hi + 1
    <3>1. c[i] = x /\ u[i - 1] = t[hi] /\ u[lo] = t[lo]
      BY <1>1, <1>2, <1>3, <2>1
    <3>. QED
      BY <1>5, <1>7, <1>9, <3>1 DEF C
  <2>2. CASE i # hi + 1
    <3>1. i \in lo + 1 .. hi /\ i \in lo .. hi /\ i - 1 \in lo .. hi
      BY <1>1, <2>2
    <3>2. c[i] = b[i] /\ u[i - 1] = t[i - 1] /\ u[lo] = t[lo]
      BY <1>1, <1>2, <3>1
    <3>3. IsPoint(t[i - 1]) /\ IsPoint(t[i]) /\ Before(t[lo], t[i - 1]) /\ Before(t[i], t[hi])
          /\ Leads(b[i], t[i - 1], t[i])
      BY <1>1, <3>1 DEF Line
    <3>4. /\ t[i - 1].pos \in Nat /\ t[i].pos \in Nat
          /\ t[lo].pos =< t[i - 1].pos /\ t[i].pos =< t[hi].pos
          /\ t[i].pos = t[i - 1].pos + Len(Codes(b[i]))
      BY <3>3 DEF IsPoint, Before, Leads
    <3>5. PICK pa \in Nat, pb \in Nat, p0 \in Nat, ph \in Nat :
            pa = t[i - 1].pos /\ pb = t[i].pos /\ p0 = t[lo].pos /\ ph = t[hi].pos
      BY <1>6, <3>4, Zenon
    <3>6. j \in 1 .. Len(Codes(b[i])) /\ Len(Codes(b[i])) \in Nat
      BY <3>1, <3>2, ItemShaped DEF Line
    <3>7. (pa - p0) + j \in 1 .. Len(s)
      <4>1. /\ p0 =< pa /\ pb =< ph /\ pb = pa + Len(Codes(b[i])) /\ Len(s) = ph - p0
        BY <1>5, <3>4, <3>5, Zenon
      <4>. QED
        BY <3>6, <4>1
    <3>8. s[(pa - p0) + j] = Codes(b[i])[j]
      BY <3>1, <3>5, <3>6 DEF Carries
    <3>. QED
      BY <1>7, <3>2, <3>5, <3>7, <3>8
  <2>. QED
    BY <2>1, <2>2
<1>. QED
  BY <1>8, <1>9 DEF Carries, C

\* What the new item adds to what is owed.
LEMMA ListsMore ==
  ASSUME NEW b, NEW t, NEW lo, NEW hi, Line(b, t, lo, hi), NEW x, NEW q,
         IsPoint(q), Leads(x, t[hi], q),
         NEW c, NEW u, More(c, u, b, t, lo, hi, x, q),
         NEW s \in Seq(Entries), NEW first \in Nat, first =< t[lo].cnt,
         Lists(s, b, t, lo, hi, first), NEW e,
         Counts(x) => e \in Entries /\ e = Entry(x.key, q.held, q.on)
  PROVE  Lists(IF Counts(x) THEN Append(s, e) ELSE s, c, u, lo, hi + 1, first)
<1>. DEFINE r == IF Counts(x) THEN Append(s, e) ELSE s
<1>1. /\ lo \in Nat /\ hi \in Nat /\ lo =< hi /\ hi \in lo .. hi /\ lo \in lo .. hi
      /\ IsPoint(t[lo]) /\ IsPoint(t[hi]) /\ Before(t[lo], t[hi])
  BY DEF Line
<1>2. \A i \in lo .. hi : c[i] = b[i] /\ u[i] = t[i]
  BY DEF More
<1>3. c[hi + 1] = x /\ u[hi + 1] = q
  BY DEF More
<1>4. /\ Len(s) = t[hi].cnt - first /\ q.cnt = t[hi].cnt + (IF Counts(x) THEN 1 ELSE 0)
      /\ t[hi].cnt \in Nat /\ t[lo].cnt \in Nat /\ t[lo].cnt =< t[hi].cnt
  BY <1>1 DEF Lists, Leads, IsPoint, Before
<1>5. /\ Len(r) = Len(s) + (IF Counts(x) THEN 1 ELSE 0)
      /\ \A m \in 1 .. Len(s) : r[m] = s[m]
      /\ Counts(x) => r[Len(s) + 1] = e
  BY AppendProperties
<1>. HIDE DEF r
<1>6. Len(r) = u[hi + 1].cnt - first
  BY <1>3, <1>4, <1>5
<1>7. ASSUME NEW i \in lo + 1 .. hi + 1, Counts(c[i])
      PROVE  r[u[i].cnt - first] = Entry(c[i].key, u[i].held, u[i].on)
  <2>1. CASE i = hi + 1
    <3>1. Counts(x) /\ u[i].cnt - first = Len(s) + 1
      BY <1>3, <1>4, <1>7, <2>1
    <3>. QED
      BY <1>3, <1>5, <2>1, <3>1
  <2>2. CASE i # hi + 1
    <3>1. i \in lo + 1 .. hi /\ i \in lo .. hi /\ i - 1 \in lo .. hi
      BY <1>1, <2>2
    <3>2. c[i] = b[i] /\ u[i] = t[i]
      BY <1>2, <3>1
    <3>3. IsPoint(t[i - 1]) /\ IsPoint(t[i]) /\ Before(t[lo], t[i - 1]) /\ Before(t[i], t[hi])
          /\ t[i].cnt = t[i - 1].cnt + 1
      <4>1. Leads(b[i], t[i - 1], t[i]) /\ Counts(b[i])
        BY <1>7, <3>1, <3>2 DEF Line
      <4>2. IsPoint(t[i - 1]) /\ IsPoint(t[i]) /\ Before(t[lo], t[i - 1]) /\ Before(t[i], t[hi])
        BY <1>1, <3>1 DEF Line
      <4>. QED
        BY <4>1, <4>2 DEF Leads
    <3>4. /\ t[i].cnt \in Nat /\ t[i].cnt =< t[hi].cnt /\ t[i].cnt > t[lo].cnt
      <4>1. /\ t[i].cnt \in Nat /\ t[i - 1].cnt \in Nat
            /\ t[i].cnt =< t[hi].cnt /\ t[lo].cnt =< t[i - 1].cnt
        BY <3>3 DEF IsPoint, Before
      <4>2. PICK n \in Nat, m \in Nat, l \in Nat :
              n = t[i].cnt /\ m = t[i - 1].cnt /\ l = t[lo].cnt
        BY <1>4, <4>1, Zenon
      <4>3. n = m + 1 /\ l =< m
        BY <3>3, <4>1, <4>2, Zenon
      <4>4. n > l
        BY <4>3
      <4>. QED
        BY <4>1, <4>2, <4>4, Zenon
    <3>5. t[i].cnt - first \in 1 .. Len(s)
      BY <1>4, <3>4, SMTT(40)
    <3>6. s[t[i].cnt - first] = Entry(b[i].key, t[i].held, t[i].on)
      BY <1>7, <3>1, <3>2 DEF Lists
    <3>. QED
      BY <1>5, <3>2, <3>5, <3>6
  <2>. QED
    BY <2>1, <2>2
<1>. QED
  BY <1>6, <1>7 DEF Lists, r

-----------------------------------------------------------------------------
(* The invariant: what is on its way, what is owed and what is held follow from
   the items that were not decoded yet *)

RingSuffices == 3 * MaxAhead + 11 =< KB_IN_BYTES

stream == got \o (kb_in \o wire)
due == (IF pc = "code" THEN 2 ELSE IF pc \in {"ack", "value"} THEN 1 ELSE 0)
       + (IF ibf = <<>> THEN 0 ELSE 1)
Load(t, lo, hi) == (t[hi].pos - t[lo].pos) + (t[hi].extra - t[lo].extra)

Decoding(b, t, lo, hi, first) ==
  /\ Line(b, t, lo, hi)
  /\ Carries(stream, b, t, lo, hi)
  /\ Lists(owed, b, t, lo, hi, first)
  /\ first \in Nat /\ first + (IF lock = None THEN 0 ELSE 1) = t[lo].cnt
  /\ mods = t[lo].held \cap Modifiers /\ locks = t[lo].on
  /\ held = t[hi].held /\ typed = t[hi].on
  /\ lock # None => pc # "read" /\ owed[1] = [key |-> lock, flags |-> mods]
  /\ got # <<>> => lo < hi /\ Len(got) < Len(Codes(b[lo + 1]))
  /\ Load(t, lo, hi) + due =< 3 * MaxAhead + 11

\* The numbers at both ends of the line of items.
LEMMA LineEnds ==
  ASSUME NEW b, NEW t, NEW lo, NEW hi, Line(b, t, lo, hi)
  PROVE  /\ lo \in Nat /\ hi \in Nat /\ lo =< hi
         /\ IsPoint(t[lo]) /\ IsPoint(t[hi]) /\ Before(t[lo], t[hi])
         /\ t[lo].pos \in Nat /\ t[hi].pos \in Nat /\ t[lo].pos =< t[hi].pos
         /\ t[lo].extra \in Nat /\ t[hi].extra \in Nat /\ t[lo].extra =< t[hi].extra
         /\ t[hi].extra - t[lo].extra =< 2 * (t[hi].pos - t[lo].pos)
         /\ t[lo].cnt \in Nat /\ t[hi].cnt \in Nat /\ t[lo].cnt =< t[hi].cnt
<1>1. /\ lo \in Nat /\ hi \in Nat /\ lo =< hi
      /\ IsPoint(t[lo]) /\ IsPoint(t[hi]) /\ Before(t[lo], t[hi])
  BY DEF Line
<1>. QED
  BY <1>1 DEF IsPoint, Before

\* The stream starts with what keyboard_read has, then what is in the ring.
LEMMA StreamIs ==
  ASSUME Typed
  PROVE  /\ stream \in Seq(Byte)
         /\ Len(stream) = Len(got) + (Len(kb_in) + Len(wire))
         /\ \A j \in 1 .. Len(got) : stream[j] = got[j]
         /\ kb_in # <<>> => stream[Len(got) + 1] = Head(kb_in)
<1>1. got \in Seq(Byte) /\ kb_in \in Seq(Byte) /\ wire \in Seq(Byte)
  BY DEF Typed
<1>2. /\ kb_in \o wire \in Seq(Byte) /\ Len(kb_in \o wire) = Len(kb_in) + Len(wire)
      /\ kb_in # <<>> => (kb_in \o wire)[1] = Head(kb_in)
  BY <1>1
<1>. DEFINE r == kb_in \o wire
<1>. HIDE DEF r
<1>3. r \in Seq(Byte) /\ stream = got \o r /\ Len(r) = Len(kb_in) + Len(wire)
      /\ (kb_in # <<>> => r[1] = Head(kb_in) /\ Len(r) > 0)
  BY <1>1, <1>2 DEF r, stream
<1>. QED
  BY <1>1, <1>3

\* The ring has room for all that is on its way.
LEMMA NothingLost ==
  ASSUME Typed, RingSuffices, NEW b, NEW t, NEW lo, NEW hi, NEW first,
         Decoding(b, t, lo, hi, first), wire # <<>>
  PROVE  Room
<1>1. Len(stream) = t[hi].pos - t[lo].pos /\ Load(t, lo, hi) + due =< 3 * MaxAhead + 11
  BY DEF Decoding, Carries
<1>2. Len(stream) = Len(got) + (Len(kb_in) + Len(wire))
  BY StreamIs
<1>3. Len(got) \in Nat /\ Len(kb_in) \in Nat /\ Len(wire) \in Nat /\ Len(wire) > 0
  BY DEF Typed
<1>4. /\ t[lo].pos \in Nat /\ t[hi].pos \in Nat
      /\ t[lo].extra \in Nat /\ t[hi].extra \in Nat /\ t[lo].extra =< t[hi].extra
  BY LineEnds DEF Decoding
<1>5. due \in Nat
  BY DEF due
<1>6. Len(kb_in) < 3 * MaxAhead + 11
  <2>1. PICK p \in Nat, q \in Nat, e \in Nat, f \in Nat :
          p = t[lo].pos /\ q = t[hi].pos /\ e = t[lo].extra /\ f = t[hi].extra
    BY <1>4, Zenon
  <2>2. (q - p) + (f - e) + due =< 3 * MaxAhead + 11 /\ Len(stream) = q - p /\ e =< f
    BY <1>1, <1>4, <2>1, Zenon DEF Load
  <2>. QED
    BY <1>2, <1>3, <1>5, <2>2, BoundsAssumption
<1>. QED
  BY <1>3, <1>6, BoundsAssumption DEF Room, RingSuffices

\* What keyboard_read has with the next code is a part of the first item.
LEMMA FirstItem ==
  ASSUME Typed, NEW b, NEW t, NEW lo, NEW hi, NEW first,
         Decoding(b, t, lo, hi, first), pc = "read", kb_in # <<>>
  PROVE  /\ lo < hi /\ IsItem(b[lo + 1])
         /\ Incomplete(codes) => Len(codes) < Len(Codes(b[lo + 1]))
         /\ ~Incomplete(codes) => codes = Codes(b[lo + 1])
<1>1. /\ got \in Seq(Byte) /\ kb_in \in Seq(Byte) /\ wire \in Seq(Byte)
  BY DEF Typed
<1>2. Head(kb_in) \in Byte /\ Len(kb_in) > 0 /\ Len(got) \in Nat /\ Len(wire) \in Nat
  BY <1>1, HeadTailProperties
<1>3. /\ codes \in Seq(Byte) /\ Len(codes) = Len(got) + 1
      /\ \A j \in 1 .. Len(got) : codes[j] = got[j]
      /\ codes[Len(got) + 1] = Head(kb_in)
  BY <1>1, <1>2, AppendProperties DEF codes
<1>4. Len(stream) = t[hi].pos - t[lo].pos /\ Len(stream) > 0
  <2>1. Len(stream) = t[hi].pos - t[lo].pos
    BY DEF Decoding, Carries
  <2>. QED
    BY <1>2, <2>1, StreamIs
<1>5. lo \in Nat /\ hi \in Nat /\ lo =< hi /\ t[lo].pos \in Nat /\ t[hi].pos \in Nat
  BY LineEnds DEF Decoding
<1>6. lo < hi
  BY <1>4, <1>5
<1>7. lo + 1 \in lo + 1 .. hi /\ (lo + 1) - 1 = lo
  BY <1>5, <1>6
<1>. DEFINE C == Codes(b[lo + 1])
<1>8. IsItem(b[lo + 1]) /\ Shaped(C) /\ Len(C) \in 1 .. 6
  <2>1. IsItem(b[lo + 1])
    BY <1>7 DEF Decoding, Line
  <2>. QED
    BY <2>1, ItemShaped
<1>9. \A j \in 1 .. Len(C) : stream[j] = C[j]
  <2>1. \A j \in 1 .. Len(C) : stream[(t[(lo + 1) - 1].pos - t[lo].pos) + j] = C[j]
    BY <1>7 DEF Decoding, Carries
  <2>2. t[(lo + 1) - 1].pos - t[lo].pos = 0
    BY <1>5, <1>7
  <2>. HIDE DEF C
  <2>. QED
    BY <1>8, <2>1, <2>2
<1>10. Len(got) < Len(C)
  <2>1. CASE got = <<>>
    BY <1>8, <2>1
  <2>2. CASE got # <<>>
    BY <2>2 DEF Decoding
  <2>. QED
    BY <2>1, <2>2
<1>. HIDE DEF C
<1>11. Len(codes) \in 1 .. Len(C) /\ \A j \in 1 .. Len(codes) : codes[j] = C[j]
  BY <1>2, <1>3, <1>8, <1>9, <1>10, StreamIs
<1>12. /\ Incomplete(codes) <=> Len(codes) < Len(C)
       /\ Len(codes) = Len(C) => codes = C
  BY <1>3, <1>8, <1>11, StopsThere
<1>. QED
  BY <1>3, <1>6, <1>8, <1>11, <1>12 DEF C

-----------------------------------------------------------------------------
(* Steps that move codes *)

DecoderInv == Typed /\ \E b, t, lo, hi, first : Decoding(b, t, lo, hi, first)

\* Steps that neither add an item nor take the last code of one.
LEMMA SameItems ==
  ASSUME NEW b, NEW t, NEW lo, NEW hi, NEW first, Decoding(b, t, lo, hi, first),
         stream' = stream, UNCHANGED <<owed, lock, mods, locks, held, typed>>,
         due' =< due, due \in Nat, due' \in Nat,
         lock = None \/ pc' # "read",
         got' # <<>> => lo < hi /\ Len(got') < Len(Codes(b[lo + 1]))
  PROVE  Decoding(b, t, lo, hi, first)'
<1>1. /\ Line(b, t, lo, hi) /\ Carries(stream, b, t, lo, hi)
      /\ Lists(owed, b, t, lo, hi, first)
      /\ first \in Nat /\ first + (IF lock = None THEN 0 ELSE 1) = t[lo].cnt
      /\ mods = t[lo].held \cap Modifiers /\ locks = t[lo].on
      /\ held = t[hi].held /\ typed = t[hi].on
      /\ lock # None => owed[1] = [key |-> lock, flags |-> mods]
      /\ Load(t, lo, hi) + due =< 3 * MaxAhead + 11
  BY DEF Decoding
<1>2. Load(t, lo, hi) \in Int
  <2>1. /\ t[lo].pos \in Nat /\ t[hi].pos \in Nat
        /\ t[lo].extra \in Nat /\ t[hi].extra \in Nat
    BY <1>1, LineEnds
  <2>. QED
    BY <2>1 DEF Load
<1>3. Load(t, lo, hi) + due' =< 3 * MaxAhead + 11
  BY <1>1, <1>2, BoundsAssumption
<1>. QED
  BY <1>1, <1>3 DEF Decoding

\* At most three acknowledgements are still to come from commands.
LEMMA DueIs == due \in Nat /\ due =< 3
BY DEF due

\* The same in the next state.
LEMMA DueIsNext == (due \in Nat /\ due =< 3)'
BY DueIs, PTL

\* Concatenation of codes is associative.
LEMMA Assoc ==
  \A x, y, z \in Seq(Byte) : (x \o y) \o z = x \o (y \o z)
BY ConcatAssociative

\* The interrupt moves a code along the stream.
LEMMA HandlerKeeps ==
  ASSUME Typed, RingSuffices, NEW b, NEW t, NEW lo, NEW hi, NEW first,
         Decoding(b, t, lo, hi, first), keyboard_handler
  PROVE  Decoding(b, t, lo, hi, first)'
<1>1. wire # <<>> /\ kb_in' = Append(kb_in, Head(wire)) /\ wire' = Tail(wire) /\ got' = got
  BY NothingLost DEF keyboard_handler
<1>2. wire \in Seq(Byte) /\ kb_in \in Seq(Byte) /\ Head(wire) \in Byte /\ Tail(wire) \in Seq(Byte)
      /\ <<Head(wire)>> \in Seq(Byte) /\ wire = <<Head(wire)>> \o Tail(wire)
  BY <1>1 DEF Typed
<1>3. kb_in' \o wire' = kb_in \o wire
  <2>1. kb_in' = kb_in \o <<Head(wire)>>
    BY <1>1, <1>2, AppendIsConcat
  <2>2. (kb_in \o <<Head(wire)>>) \o Tail(wire) = kb_in \o (<<Head(wire)>> \o Tail(wire))
    BY <1>2, Assoc
  <2>. QED
    BY <1>1, <1>2, <2>1, <2>2, Zenon
<1>4. stream' = stream
  BY <1>1, <1>3 DEF stream
<1>5. /\ UNCHANGED <<owed, lock, mods, locks, held, typed>> /\ due' = due /\ pc' = pc
  BY DEF keyboard_handler, person, due
<1>6. /\ lock = None \/ pc' # "read"
      /\ got' # <<>> => lo < hi /\ Len(got') < Len(Codes(b[lo + 1]))
  BY <1>1, <1>5 DEF Decoding
<1>. QED
  BY <1>4, <1>5, <1>6, DueIs, SameItems

\* kb_in loses its first code, and what is read with it
LEMMA StreamSplits ==
  ASSUME Typed, kb_in # <<>>
  PROVE  /\ stream = codes \o (Tail(kb_in) \o wire)
         /\ codes \in Seq(Byte) /\ Tail(kb_in) \o wire \in Seq(Byte)
<1>1. /\ got \in Seq(Byte) /\ kb_in \in Seq(Byte) /\ wire \in Seq(Byte)
  BY DEF Typed
<1>. DEFINE h == <<Head(kb_in)>>
            r == Tail(kb_in)
<1>2. h \in Seq(Byte) /\ r \in Seq(Byte) /\ kb_in = h \o r /\ r \o wire \in Seq(Byte)
      /\ Head(kb_in) \in Byte
  BY <1>1
<1>3. codes = got \o h /\ codes \in Seq(Byte)
  BY <1>1, <1>2, AppendIsConcat, AppendProperties DEF codes
<1>. HIDE DEF h, r
<1>a. h \in Seq(Byte) /\ r \in Seq(Byte) /\ wire \in Seq(Byte)
  BY <1>1, <1>2
<1>4. (h \o r) \o wire = h \o (r \o wire)
  BY <1>a, Assoc, Zenon
<1>5. (got \o h) \o (r \o wire) = got \o (h \o (r \o wire))
  BY <1>1, <1>2, Assoc, ZenonT(40)
<1>6. stream = codes \o (r \o wire)
  BY <1>2, <1>3, <1>4, <1>5, Zenon DEF stream
<1>. QED
  BY <1>2, <1>3, <1>6 DEF r

\* A code that is not the last of its key.
LEMMA MoreKeeps ==
  ASSUME Typed, NEW b, NEW t, NEW lo, NEW hi, NEW first,
         Decoding(b, t, lo, hi, first), MoreToCome
  PROVE  Decoding(b, t, lo, hi, first)'
<1>1. /\ pc = "read" /\ kb_in # <<>> /\ kb_in' = Tail(kb_in) /\ Incomplete(codes) /\ got' = codes
      /\ UNCHANGED <<mods, locks, pc, lock, ibf, wire, held, typed, owed>>
  BY DEF MoreToCome, NextCode, device, person
<1>2. lo < hi /\ Len(codes) < Len(Codes(b[lo + 1]))
  BY <1>1, FirstItem
<1>3. stream' = stream
  BY <1>1, StreamSplits DEF stream
<1>4. due' = due
  BY <1>1 DEF due
<1>5. lock = None \/ pc' # "read"
  BY <1>1 DEF Decoding
<1>. QED
  BY <1>1, <1>2, <1>3, <1>4, <1>5, DueIs, SameItems

\* set_leds reports the lock key when it returns.
LEMMA SetLedsKeeps ==
  ASSUME Typed, Typed', NEW b, NEW t, NEW lo, NEW hi, NEW first,
         Decoding(b, t, lo, hi, first), SetLeds
  PROVE  \E n : Decoding(b, t, lo, hi, n)'
<1>1. UNCHANGED <<kb_in, got, mods, locks, wire, held, typed>> /\ stream' = stream
  BY DEF SetLeds, person, stream
<1>2. got' # <<>> => lo < hi /\ Len(got') < Len(Codes(b[lo + 1]))
  BY <1>1 DEF Decoding
<1>3. CASE pc \in {"code", "ack", "value"}
  <2>1. pc' # "read" /\ UNCHANGED <<lock, owed>> /\ due' =< due
    BY <1>3 DEF SetLeds, set_leds, kb_wait, due
  <2>. QED
    BY <1>1, <1>2, <2>1, DueIs, DueIsNext, SameItems
<1>4. CASE pc = "last_ack" /\ lock = None
  <2>1. UNCHANGED <<lock, owed>> /\ due' = due
    BY <1>4 DEF SetLeds, set_leds, due
  <2>. QED
    BY <1>1, <1>2, <1>4, <2>1, DueIs, DueIsNext, SameItems
<1>5. CASE pc = "last_ack" /\ lock # None
  <2>1. /\ Line(b, t, lo, hi) /\ Carries(stream, b, t, lo, hi)
        /\ Lists(owed, b, t, lo, hi, first) /\ first \in Nat /\ first + 1 = t[lo].cnt
        /\ mods = t[lo].held \cap Modifiers /\ locks = t[lo].on
        /\ held = t[hi].held /\ typed = t[hi].on
        /\ Load(t, lo, hi) + due =< 3 * MaxAhead + 11
    BY <1>5 DEF Decoding
  <2>2. owed \in Seq(Entries)
    BY DEF Typed
  <2>3. owed # <<>> /\ Lists(Tail(owed), b, t, lo, hi, first + 1)
    BY <2>1, <2>2, ListsTail
  <2>4. owed' = Tail(owed) /\ lock' = None /\ due' = due
    BY <1>5, <2>3 DEF SetLeds, set_leds, Report, due
  <2>5. first + 1 \in Nat /\ (first + 1) + 0 = t[lo].cnt
    BY <2>1
  <2>6. Decoding(b, t, lo, hi, first + 1)'
    BY <1>1, <1>2, <2>1, <2>3, <2>4, <2>5 DEF Decoding
  <2>. QED
    BY <2>6
<1>. QED
  BY <1>3, <1>4, <1>5 DEF SetLeds, set_leds

\* An item that comes in at the end of the stream.
LEMMA ItemComes ==
  ASSUME Typed, NEW b, NEW t, NEW lo, NEW hi, NEW first, Decoding(b, t, lo, hi, first),
         NEW x, NEW q, IsItem(x), IsPoint(q), Leads(x, t[hi], q),
         NEW e, Counts(x) => e \in Entries /\ e = Entry(x.key, q.held, q.on),
         stream' = stream \o Codes(x),
         owed' = IF Counts(x) THEN Append(owed, e) ELSE owed,
         UNCHANGED <<mods, locks, lock, pc, got>>, held' = q.held, typed' = q.on,
         (q.pos - t[lo].pos) + (q.extra - t[lo].extra) + due' =< 3 * MaxAhead + 11
  PROVE  \E c, u : Decoding(c, u, lo, hi + 1, first)'
<1>1. /\ Line(b, t, lo, hi) /\ Carries(stream, b, t, lo, hi)
      /\ Lists(owed, b, t, lo, hi, first)
      /\ first \in Nat /\ first + (IF lock = None THEN 0 ELSE 1) = t[lo].cnt
      /\ mods = t[lo].held \cap Modifiers /\ locks = t[lo].on
      /\ lock # None => pc # "read" /\ owed[1] = [key |-> lock, flags |-> mods]
      /\ got # <<>> => lo < hi /\ Len(got) < Len(Codes(b[lo + 1]))
  BY DEF Decoding
<1>2. lo \in Nat /\ hi \in Nat /\ lo =< hi /\ t[lo].cnt \in Nat /\ t[hi].cnt \in Nat
      /\ t[lo].cnt =< t[hi].cnt
  BY <1>1, LineEnds
<1>. DEFINE c == [i \in Nat |-> IF i = hi + 1 THEN x ELSE b[i]]
            u == [i \in Nat |-> IF i = hi + 1 THEN q ELSE t[i]]
<1>3. More(c, u, b, t, lo, hi, x, q)
  BY <1>2 DEF More
<1>4. u[lo] = t[lo] /\ u[hi + 1] = q /\ (lo < hi => c[lo + 1] = b[lo + 1])
  BY <1>2
<1>. HIDE DEF c, u
<1>5. stream \in Seq(Byte) /\ owed \in Seq(Entries)
  BY StreamIs DEF Typed
<1>6. Line(c, u, lo, hi + 1)
  BY <1>1, <1>3, LineMore
<1>7. Carries(stream', c, u, lo, hi + 1)
  BY <1>1, <1>3, <1>5, CarriesMore
<1>8. Lists(owed', c, u, lo, hi + 1, first)
  <2>1. first =< t[lo].cnt
    BY <1>1, <1>2
  <2>. QED
    BY <1>1, <1>3, <1>5, <2>1, ListsMore
<1>9. lock' # None => pc' # "read" /\ owed'[1] = [key |-> lock', flags |-> mods']
  <2>. SUFFICES ASSUME lock # None PROVE owed'[1] = owed[1]
    BY <1>1
  <2>1. Len(owed) = t[hi].cnt - first /\ first + 1 = t[lo].cnt
    BY <1>1 DEF Lists
  <2>2. Len(owed) >= 1
    BY <1>1, <1>2, <2>1, SMTT(40)
  <2>. QED
    BY <1>5, <2>2, AppendProperties
<1>10. got' # <<>> => lo < hi + 1 /\ Len(got') < Len(Codes(c[lo + 1]))
  BY <1>1, <1>2, <1>4
<1>11. Load(u, lo, hi + 1) + due' =< 3 * MaxAhead + 11
  BY <1>4 DEF Load
<1>12. /\ first \in Nat /\ first + (IF lock' = None THEN 0 ELSE 1) = u[lo].cnt
       /\ mods' = u[lo].held \cap Modifiers /\ locks' = u[lo].on
       /\ held' = u[hi + 1].held /\ typed' = u[hi + 1].on
  BY <1>1, <1>4
<1>13. Decoding(c, u, lo, hi + 1, first)'
  BY <1>6, <1>7, <1>8, <1>9, <1>10, <1>11, <1>12 DEF Decoding
<1>. QED
  BY <1>13

\* What comes in extends the stream.
LEMMA StreamGrows ==
  ASSUME Typed, NEW s \in Seq(Byte), wire' = wire \o s, UNCHANGED <<got, kb_in>>
  PROVE  stream' = stream \o s
<1>1. /\ got \in Seq(Byte) /\ kb_in \in Seq(Byte) /\ wire \in Seq(Byte)
      /\ kb_in \o wire \in Seq(Byte)
  BY DEF Typed
<1>2. (kb_in \o wire) \o s = kb_in \o (wire \o s)
  BY <1>1, Assoc, ZenonT(40)
<1>3. (got \o (kb_in \o wire)) \o s = got \o ((kb_in \o wire) \o s)
  BY <1>1, Assoc, ZenonT(40)
<1>. QED
  BY <1>2, <1>3, Zenon DEF stream

\* The acknowledgement of a command was due; now it is on its way.
LEMMA ObeyKeeps ==
  ASSUME Typed, NEW b, NEW t, NEW lo, NEW hi, NEW first,
         Decoding(b, t, lo, hi, first), Obey
  PROVE  \E c, u : Decoding(c, u, lo, hi + 1, first)'
<1>. DEFINE x == [kind |-> "ack"]
            q == [pos |-> t[hi].pos + 1, extra |-> t[hi].extra, cnt |-> t[hi].cnt,
                  held |-> t[hi].held, on |-> t[hi].on]
<1>1. /\ IsPoint(t[hi]) /\ t[lo].pos \in Nat /\ t[hi].pos \in Nat
      /\ t[lo].extra \in Nat /\ t[hi].extra \in Nat
      /\ Load(t, lo, hi) + due =< 3 * MaxAhead + 11
      /\ held = t[hi].held /\ typed = t[hi].on
  BY LineEnds DEF Decoding
<1>2. /\ q.pos = t[hi].pos + 1 /\ q.extra = t[hi].extra /\ q.cnt = t[hi].cnt
      /\ q.held = t[hi].held /\ q.on = t[hi].on /\ x.kind = "ack"
  OBVIOUS
<1>. HIDE DEF x, q
<1>3. Codes(x) = <<KB_ACK>> /\ Len(Codes(x)) = 1 /\ ~Counts(x)
  BY <1>2 DEF Codes, Counts
<1>4. IsItem(x) /\ IsPoint(q) /\ Leads(x, t[hi], q)
  <2>1. IsPoint(q)
    BY <1>1, <1>2 DEF IsPoint
  <2>2. Leads(x, t[hi], q)
    BY <1>1, <1>2, <1>3 DEF Leads, IsPoint
  <2>. QED
    BY <1>2, <2>1, <2>2 DEF IsItem
<1>5. /\ ibf # <<>> /\ ibf' = <<>> /\ wire' = Append(wire, KB_ACK)
      /\ UNCHANGED <<kb_in, got, mods, locks, pc, lock, held, typed, owed>>
  BY DEF Obey, driver, person
<1>6. stream' = stream \o Codes(x)
  <2>1. <<KB_ACK>> \in Seq(Byte) /\ wire \in Seq(Byte) /\ KB_ACK \in Byte
    BY DEF KB_ACK, Byte, Typed
  <2>2. wire' = wire \o <<KB_ACK>>
    BY <1>5, <2>1, AppendIsConcat
  <2>. QED
    BY <1>3, <1>5, <2>1, <2>2, StreamGrows
<1>7. due' = due - 1
  BY <1>5 DEF due
<1>8. (q.pos - t[lo].pos) + (q.extra - t[lo].extra) + due' =< 3 * MaxAhead + 11
  <2>1. PICK p0 \in Nat, p1 \in Nat, e0 \in Nat, e1 \in Nat, d \in Nat :
          p0 = t[lo].pos /\ p1 = t[hi].pos /\ e0 = t[lo].extra /\ e1 = t[hi].extra /\ d = due
    BY <1>1, DueIs, Zenon
  <2>2. (p1 - p0) + (e1 - e0) + d =< 3 * MaxAhead + 11
    BY <1>1, <2>1, Zenon DEF Load
  <2>3. q.pos = p1 + 1 /\ q.extra = e1 /\ due' = d - 1
    BY <1>2, <1>7, <2>1, Zenon
  <2>4. (q.pos - p0) + (q.extra - e0) + due' =< 3 * MaxAhead + 11
    BY <2>2, <2>3, BoundsAssumption
  <2>. QED
    BY <2>1, <2>4, Zenon
<1>9. held' = q.held /\ typed' = q.on
  BY <1>1, <1>2, <1>5
<1>10. owed' = IF Counts(x) THEN Append(owed, x) ELSE owed
  BY <1>3, <1>5
<1>. QED
  BY <1>3, <1>4, <1>5, <1>6, <1>8, <1>9, <1>10, ItemComes

\* A key struck or let go comes in when no more than MaxAhead codes are on their
\* way, so that with those of the key there is still room.
LEMMA RoomForKey ==
  ASSUME Typed, NEW b, NEW t, NEW lo, NEW hi, NEW first,
         Decoding(b, t, lo, hi, first), InFlight =< MaxAhead,
         NEW x, NEW q, IsItem(x), Leads(x, t[hi], q), UNCHANGED <<pc, ibf>>
  PROVE  /\ (q.pos - t[lo].pos) + (q.extra - t[lo].extra) + due' =< 3 * MaxAhead + 11
         /\ q.pos \in Nat /\ q.extra \in Nat /\ q.cnt \in Nat
<1>1. Line(b, t, lo, hi) /\ Len(stream) = t[hi].pos - t[lo].pos
  BY DEF Decoding, Carries
<1>2. Len(stream) = InFlight
  BY StreamIs DEF Typed, InFlight
<1>3. /\ t[lo].pos \in Nat /\ t[hi].pos \in Nat /\ t[lo].pos =< t[hi].pos
      /\ t[lo].extra \in Nat /\ t[hi].extra \in Nat /\ t[lo].extra =< t[hi].extra
      /\ t[hi].extra - t[lo].extra =< 2 * (t[hi].pos - t[lo].pos) /\ t[hi].cnt \in Nat
  BY <1>1, LineEnds
<1>4. due' = due /\ due \in Nat /\ due =< 3
  BY DueIs DEF due
<1>5. Len(Codes(x)) \in 1 .. 6
  BY ItemShaped
<1>6. PICK p0 \in Nat, p1 \in Nat, e0 \in Nat, e1 \in Nat, d \in Nat, l \in 1 .. 6 :
        p0 = t[lo].pos /\ p1 = t[hi].pos /\ e0 = t[lo].extra /\ e1 = t[hi].extra
        /\ d = due /\ l = Len(Codes(x))
  BY <1>3, <1>4, <1>5, Zenon
<1>7. q.pos = p1 + l /\ (q.extra = e1 \/ q.extra = e1 + 2)
  BY <1>3, <1>6, SMTT(40) DEF Leads
<1>8. /\ p0 =< p1 /\ e0 =< e1 /\ e1 - e0 =< 2 * (p1 - p0) /\ p1 - p0 =< MaxAhead
      /\ d =< 3 /\ due' = d
  BY <1>1, <1>2, <1>3, <1>4, <1>6, Zenon
<1>9. (q.pos - p0) + (q.extra - e0) + due' =< 3 * MaxAhead + 11
  BY <1>7, <1>8, BoundsAssumption
<1>10. q.pos \in Nat /\ q.extra \in Nat
  BY <1>7
<1>11. q.cnt \in Nat
  BY <1>3 DEF Leads
<1>. QED
  BY <1>6, <1>9, <1>10, <1>11, Zenon

\* The Shift keys send no E0.
LEMMA ShiftIsOne == Shifts \cap E0Keys = {}
<1>. SUFFICES ASSUME NEW k \in Shifts, k \in E0Keys PROVE FALSE
  OBVIOUS
<1>1. k \in NamesOf(OneCodes)
  <2>1. \A c : <<k, c>> \in NameCodes => k \in NamesOf(OneCodes)
    BY DEF NamesOf, OneCodes
  <2>2. <<"SHIFT_L", \h2A>> \in NameCodes /\ <<"SHIFT_R", \h36>> \in NameCodes
    BY DEF NameCodes
  <2>. QED
    BY <2>1, <2>2 DEF Shifts
<1>2. k \in DOMAIN Make /\ Make[k][1] = E0
  BY DEF E0Keys
<1>3. Make[k] = <<CodeOf(OneCodes, k)>>
  BY <1>1, <1>2, Apart DEF Make, Whole
<1>4. CodeOf(OneCodes, k) \in 1 .. 127
  <2>1. \A y, c : <<y, c>> \in OneCodes => c \in 1 .. 127
    BY Pairs
  <2>2. \A p \in OneCodes : p = <<p[1], p[2]>>
    BY Pairs
  <2>. QED
    BY <1>1, <2>1, <2>2, CodeOfIs
<1>. QED
  BY <1>2, <1>3, <1>4 DEF E0

\* A key goes down: its codes and its report come in.
LEMMA StrikeKeeps ==
  ASSUME Typed, NEW b, NEW t, NEW lo, NEW hi, NEW first,
         Decoding(b, t, lo, hi, first), NEW k \in Keys, ~Avoided(k), Strike(k), Typed'
  PROVE  \E c, u : Decoding(c, u, lo, hi + 1, first)'
<1>. DEFINE x == [kind |-> "down", key |-> k]
            q == [pos |-> t[hi].pos + Len(Make[k]),
                  extra |-> t[hi].extra + (IF k \in LockKeys THEN 2 ELSE 0),
                  cnt |-> t[hi].cnt + (IF Make[k] \notin Long THEN 1 ELSE 0),
                  held |-> held', on |-> typed']
            e == Entry(k, held', typed')
<1>1. IsPoint(t[hi]) /\ held = t[hi].held /\ typed = t[hi].on
  BY LineEnds DEF Decoding
<1>2. /\ q.pos = t[hi].pos + Len(Make[k])
      /\ q.extra = t[hi].extra + (IF k \in LockKeys THEN 2 ELSE 0)
      /\ q.cnt = t[hi].cnt + (IF Make[k] \notin Long THEN 1 ELSE 0)
      /\ q.held = held' /\ q.on = typed' /\ x.kind = "down" /\ x.key = k
  OBVIOUS
<1>3. e = [key |-> Meaning(k, held', typed'), flags |-> held' \cap Modifiers] /\ e \in Entries
  <2>1. held' \in SUBSET Keys /\ typed' \in SUBSET LockKeys
    BY DEF Typed
  <2>2. PICK down \in SUBSET Keys, on \in SUBSET LockKeys : down = held' /\ on = typed'
    BY <2>1
  <2>3. Entry(k, down, on) \in Entries
    BY DEF Entries
  <2>. QED
    BY <2>2, <2>3, Zenon DEF Entry
<1>. HIDE DEF x, q, e
<1>4. k \in DOMAIN Make /\ Codes(x) = Make[k] /\ (Counts(x) <=> Make[k] \notin Long) /\ IsItem(x)
  BY <1>2, KeysAssumption DEF Codes, Counts, IsItem
<1>5. /\ InFlight =< MaxAhead /\ wire' = wire \o Make[k]
      /\ UNCHANGED <<kb_in, got, mods, locks, pc, lock, ibf>>
      /\ held' = IF k = "PAUSEBREAK" THEN held ELSE held \cup {k}
      /\ typed' = IF k \in LockKeys THEN Toggle(typed, k) ELSE typed
      /\ owed' = IF Counts(x) THEN Append(owed, e) ELSE owed
  <2>1. Break[k] = <<>> <=> k = "PAUSEBREAK"
    BY <1>4, KeysShaped
  <2>. QED
    BY <1>3, <1>4, <2>1 DEF Strike, driver
<1>6. Leads(x, t[hi], q)
  BY <1>1, <1>2, <1>4, <1>5 DEF Leads
<1>7. Fit(held')
  <2>1. Fit(held)
    BY <1>1 DEF IsPoint
  <2>2. /\ k # "ALT_R"
        /\ (k \in E0Keys => held \cap Shifts = {}) /\ (k \in Shifts => held \cap E0Keys = {})
    BY DEF Avoided
  <2>3. held' \subseteq Keys \ {"ALT_R", "PAUSEBREAK"}
    BY <1>5, <2>1, <2>2 DEF Fit
  <2>4. ~(k \in E0Keys /\ k \in Shifts)
    BY ShiftIsOne
  <2>. QED
    BY <1>5, <2>1, <2>2, <2>3, <2>4 DEF Fit
<1>8. /\ (q.pos - t[lo].pos) + (q.extra - t[lo].extra) + due' =< 3 * MaxAhead + 11
      /\ q.pos \in Nat /\ q.extra \in Nat /\ q.cnt \in Nat
  BY <1>4, <1>5, <1>6, RoomForKey
<1>9. IsPoint(q)
  BY <1>2, <1>7, <1>8 DEF IsPoint, Typed
<1>10. stream' = stream \o Codes(x)
  BY <1>4, <1>5, ItemShaped, StreamGrows
<1>11. Counts(x) => e \in Entries /\ e = Entry(x.key, q.held, q.on)
  BY <1>2, <1>3 DEF e
<1>12. held' = q.held /\ typed' = q.on
  BY <1>2
<1>. QED
  BY <1>4, <1>5, <1>6, <1>8, <1>9, <1>10, <1>11, <1>12, ItemComes

\* A key is let go.
LEMMA ReleaseKeeps ==
  ASSUME Typed, NEW b, NEW t, NEW lo, NEW hi, NEW first,
         Decoding(b, t, lo, hi, first), NEW k \in Keys, Release(k), Typed'
  PROVE  \E c, u : Decoding(c, u, lo, hi + 1, first)'
<1>. DEFINE x == [kind |-> "up", key |-> k]
            q == [pos |-> t[hi].pos + Len(Break[k]), extra |-> t[hi].extra,
                  cnt |-> t[hi].cnt, held |-> held', on |-> typed']
<1>1. IsPoint(t[hi]) /\ held = t[hi].held /\ typed = t[hi].on
  BY LineEnds DEF Decoding
<1>2. /\ q.pos = t[hi].pos + Len(Break[k]) /\ q.extra = t[hi].extra /\ q.cnt = t[hi].cnt
      /\ q.held = held' /\ q.on = typed' /\ x.kind = "up" /\ x.key = k
  OBVIOUS
<1>. HIDE DEF x, q
<1>3. /\ InFlight =< MaxAhead /\ wire' = wire \o Break[k] /\ k \in held
      /\ UNCHANGED <<kb_in, got, mods, locks, pc, lock, ibf, owed, typed>>
      /\ held' = held \ {k}
  BY DEF Release, driver
<1>4. Fit(held) /\ k # "PAUSEBREAK" /\ Fit(held')
  BY <1>1, <1>3 DEF IsPoint, Fit
<1>5. Codes(x) = Break[k] /\ ~Counts(x) /\ IsItem(x)
  BY <1>2, <1>4 DEF Codes, Counts, IsItem
<1>6. Leads(x, t[hi], q)
  BY <1>1, <1>2, <1>3, <1>5 DEF Leads, IsPoint
<1>7. /\ (q.pos - t[lo].pos) + (q.extra - t[lo].extra) + due' =< 3 * MaxAhead + 11
      /\ q.pos \in Nat /\ q.extra \in Nat /\ q.cnt \in Nat
  BY <1>3, <1>5, <1>6, RoomForKey
<1>8. IsPoint(q)
  BY <1>2, <1>4, <1>7 DEF IsPoint, Typed
<1>9. stream' = stream \o Codes(x)
  BY <1>3, <1>5, ItemShaped, StreamGrows
<1>10. held' = q.held /\ typed' = q.on /\ owed' = IF Counts(x) THEN Append(owed, x) ELSE owed
  BY <1>2, <1>3, <1>5
<1>. QED
  BY <1>3, <1>5, <1>6, <1>7, <1>8, <1>9, <1>10, ItemComes

-----------------------------------------------------------------------------
(* Steps that decode an item *)

\* keyboard_read takes the last code of the first item.
LEMMA ItemTaken ==
  ASSUME Typed, NEW b, NEW t, NEW lo, NEW hi, NEW first,
         Decoding(b, t, lo, hi, first), DecodeKey \/ DecodeLock
  PROVE  /\ lo < hi /\ lo \in Nat /\ IsItem(b[lo + 1]) /\ codes = Codes(b[lo + 1])
         /\ Leads(b[lo + 1], t[lo], t[lo + 1]) /\ IsPoint(t[lo]) /\ IsPoint(t[lo + 1])
         /\ Line(b, t, lo + 1, hi) /\ Carries(stream', b, t, lo + 1, hi)
         /\ Lists(owed, b, t, lo + 1, hi, first) /\ first \in Nat /\ first = t[lo].cnt
         /\ got' = <<>> /\ pc = "read" /\ lock = None /\ UNCHANGED <<ibf, held, typed>>
<1>1. /\ pc = "read" /\ kb_in # <<>> /\ kb_in' = Tail(kb_in) /\ ~Incomplete(codes) /\ got' = <<>>
      /\ UNCHANGED <<ibf, wire, held, typed>>
  BY DEF DecodeKey, DecodeLock, NextCode, device, person
<1>2. /\ Line(b, t, lo, hi) /\ Carries(stream, b, t, lo, hi) /\ Lists(owed, b, t, lo, hi, first)
      /\ lock = None /\ first \in Nat /\ first + 0 = t[lo].cnt
  BY <1>1 DEF Decoding
<1>3. lo < hi /\ IsItem(b[lo + 1]) /\ codes = Codes(b[lo + 1])
  BY <1>1, FirstItem
<1>4. lo \in Nat /\ hi \in Nat
  BY <1>2 DEF Line
<1>5. lo + 1 \in lo + 1 .. hi /\ (lo + 1) - 1 = lo /\ lo \in lo .. hi /\ lo + 1 \in lo .. hi
  BY <1>3, <1>4
<1>6. Leads(b[lo + 1], t[lo], t[lo + 1]) /\ IsPoint(t[lo]) /\ IsPoint(t[lo + 1])
  BY <1>2, <1>5 DEF Line
<1>7. Line(b, t, lo + 1, hi) /\ Lists(owed, b, t, lo + 1, hi, first)
  BY <1>2, <1>3, LineLess, ListsLess
<1>. DEFINE r == Tail(kb_in) \o wire
<1>8. stream = codes \o r /\ codes \in Seq(Byte) /\ r \in Seq(Byte)
  BY <1>1, StreamSplits
<1>9. stream' = <<>> \o r
  BY <1>1 DEF stream
<1>. HIDE DEF r
<1>10. stream' = r
  BY <1>8, <1>9, ConcatEmptySeq
<1>11. Carries(r, b, t, lo + 1, hi)
  <2>1. stream \in Seq(Byte) /\ stream = Codes(b[lo + 1]) \o r
    BY <1>3, <1>8, StreamIs
  <2>. QED
    BY <1>2, <1>3, <1>8, <2>1, CarriesLess
<1>12. first = t[lo].cnt
  BY <1>2
<1>. QED
  BY <1>1, <1>2, <1>3, <1>4, <1>6, <1>7, <1>10, <1>11, <1>12

\* What follows when the first item is gone, with its effect on the driver.
LEMMA ItemGone ==
  ASSUME Typed, NEW b, NEW t, NEW lo, NEW hi, NEW first,
         Decoding(b, t, lo, hi, first), DecodeKey \/ DecodeLock,
         mods' = t[lo + 1].held \cap Modifiers, locks' = t[lo + 1].on,
         NEW n \in Nat, Lists(owed', b, t, lo + 1, hi, n),
         n + (IF lock' = None THEN 0 ELSE 1) = t[lo + 1].cnt,
         lock' # None => pc' # "read" /\ owed'[1] = [key |-> lock', flags |-> mods'],
         due' = due \/ (due' = due + 2 /\ t[lo + 1].extra = t[lo].extra + 2)
  PROVE  Decoding(b, t, lo + 1, hi, n)'
<1>1. /\ Line(b, t, lo, hi) /\ held = t[hi].held /\ typed = t[hi].on
      /\ Load(t, lo, hi) + due =< 3 * MaxAhead + 11
  BY DEF Decoding
<1>2. /\ Line(b, t, lo + 1, hi) /\ Carries(stream', b, t, lo + 1, hi)
      /\ got' = <<>> /\ UNCHANGED <<held, typed>> /\ IsPoint(t[lo]) /\ IsPoint(t[lo + 1])
      /\ Leads(b[lo + 1], t[lo], t[lo + 1]) /\ IsItem(b[lo + 1])
  BY ItemTaken
<1>3. t[lo + 1].pos \in Nat /\ t[lo + 1].extra \in Nat /\ t[hi].pos \in Nat /\ t[hi].extra \in Nat
      /\ t[lo].pos \in Nat /\ t[lo].extra \in Nat
  BY <1>1, <1>2, LineEnds DEF IsPoint
<1>4. /\ t[lo].pos =< t[lo + 1].pos
      /\ t[lo + 1].extra = t[lo].extra \/ t[lo + 1].extra = t[lo].extra + 2
  <2>1. Len(Codes(b[lo + 1])) \in 1 .. 6
    BY <1>2, ItemShaped
  <2>. QED
    BY <1>2, <1>3, <2>1 DEF Leads
<1>5. Load(t, lo + 1, hi) + due' =< 3 * MaxAhead + 11
  <2>1. PICK p0 \in Nat, p1 \in Nat, ph \in Nat, e0 \in Nat, e1 \in Nat, eh \in Nat, d \in Nat :
          /\ p0 = t[lo].pos /\ p1 = t[lo + 1].pos /\ ph = t[hi].pos
          /\ e0 = t[lo].extra /\ e1 = t[lo + 1].extra /\ eh = t[hi].extra /\ d = due
    BY <1>3, DueIs, Zenon
  <2>2. /\ p0 =< p1 /\ (e1 = e0 \/ e1 = e0 + 2) /\ (due' = d \/ (due' = d + 2 /\ e1 = e0 + 2))
        /\ (ph - p0) + (eh - e0) + d =< 3 * MaxAhead + 11
    BY <1>1, <1>4, <2>1, Zenon DEF Load
  <2>3. (ph - p1) + (eh - e1) + due' =< 3 * MaxAhead + 11
    BY <2>2, BoundsAssumption
  <2>. QED
    BY <2>1, <2>3, Zenon DEF Load
<1>. QED
  BY <1>1, <1>2, <1>5 DEF Decoding

\* What the decoder reads is the key, as far as modifiers and locks go.
LEMMA ReadsAs ==
  ASSUME NEW k, NEW y, Reads(k, y)
  PROVE  /\ y[1] \in Modifiers <=> k \in Modifiers
         /\ y[1] \in LockKeys <=> k \in LockKeys
         /\ k \in Modifiers \cup LockKeys => y = Key(k) /\ y[1] = k
         /\ k \in Modifiers /\ k # "ALT_R" => FlagOf(y[1]) = k
         /\ k \notin NamesOf(PowerCodes) => OfPad(y) = Mean(k, shifted)
<1>1. Special = Modifiers \cup LockKeys /\ Key(k)[1] = k
  BY DEF Special, Key
<1>2. Modifiers \cap LockKeys = {}
  BY DEF Modifiers, LockKeys
<1>. QED
  BY <1>1, <1>2 DEF Reads, FlagOf

\* The flags are of the modifiers held before the key, so that Shift is not
\* held with a key that sends E0.
LEMMA NoShift ==
  ASSUME NEW h, Fit(h), NEW k \in h, k \in E0Keys, mods \subseteq h
  PROVE  ~shifted
BY DEF Fit, shifted

\* Such a key, going down or let go, is read as that key.
LEMMA FitRead ==
  ASSUME NEW h, Fit(h), NEW k \in h \ Whole, mods \subseteq h
  PROVE  /\ make(Make[k]) /\ Reads(k, key(Make[k]))
         /\ ~make(Break[k]) /\ Reads(k, key(Break[k]))
<1>1. k \in DOMAIN Make \ Whole
  BY KeysAssumption DEF Fit
<1>2. k \in E0Keys => ~shifted
  BY NoShift
<1>. QED
  BY <1>1, <1>2, KeyRead

\* Print Screen and Pause are neither modifiers nor locks.
LEMMA WholeAreOrdinary == Whole \cap (Modifiers \cup LockKeys) = {}
BY DEF Whole, Modifiers, LockKeys

\* An acknowledgement is taken for a key that is let go, in an empty row.
LEMMA AckRead == ~make(<<KB_ACK>>) /\ key(<<KB_ACK>>)[1] \notin Modifiers
<1>1. 250 % 128 = 122 /\ 122 \in 0 .. 127 /\ 250 # 224 /\ ~(250 < 128)
  OBVIOUS
<1>2. scan_code(<<KB_ACK>>) = 250 /\ ~code_with_E0(<<KB_ACK>>)
  BY <1>1 DEF scan_code, code_with_E0, KB_ACK, E0
<1>3. keymap[122] = Empty
  <2>1. keymap[122] = Single(122)
    BY <1>1 DEF keymap
  <2>. QED
    BY <2>1 DEF Single
<1>4. keyrow(<<KB_ACK>>) = Empty
  BY <1>1, <1>2, <1>3 DEF keyrow
<1>5. column(<<KB_ACK>>) \in {1, 2}
  BY <1>2 DEF column
<1>6. key(<<KB_ACK>>) = None
  BY <1>4, <1>5 DEF key, Empty
<1>. QED
  BY <1>1, <1>2, <1>6 DEF make, None, Key, Modifiers

\* The entry for a key that the decoder takes now.
LEMMA FirstOwed ==
  ASSUME NEW b, NEW t, NEW lo, NEW hi, lo < hi, lo \in Nat, Line(b, t, lo + 1, hi),
         Leads(b[lo + 1], t[lo], t[lo + 1]), Counts(b[lo + 1]),
         IsPoint(t[lo]), NEW first, first = t[lo].cnt,
         Line(b, t, lo, hi), Lists(owed, b, t, lo, hi, first), owed \in Seq(Entries)
  PROVE  /\ owed # <<>> /\ first + 1 = t[lo + 1].cnt
         /\ owed[1] = Entry(b[lo + 1].key, t[lo + 1].held, t[lo + 1].on)
         /\ Lists(Tail(owed), b, t, lo + 1, hi, first + 1)
<1>1. first \in Nat /\ t[lo + 1].cnt = first + 1
  BY DEF IsPoint, Leads
<1>2. lo + 1 \in lo + 1 .. hi
  BY DEF Line
<1>3. owed[t[lo + 1].cnt - first] = Entry(b[lo + 1].key, t[lo + 1].held, t[lo + 1].on)
  BY <1>2 DEF Lists
<1>4. t[lo + 1].cnt - first = 1
  BY <1>1
<1>5. Lists(owed, b, t, lo + 1, hi, first)
  BY ListsLess
<1>6. owed # <<>> /\ Lists(Tail(owed), b, t, lo + 1, hi, first + 1)
  BY <1>1, <1>5, ListsTail
<1>. QED
  BY <1>1, <1>3, <1>4, <1>6

\* What is reported of a key that goes down is what the person meant.
LEMMA MeantWhatIsRead ==
  ASSUME NEW k, NEW h, NEW g, NEW y, Reads(k, y), mods = h \cap Modifiers,
         g = h \/ g = h \cup {k}, k \notin NamesOf(PowerCodes)
  PROVE  OfPad(y) = Meaning(k, g, locks)
<1>1. Shifts \subseteq Modifiers
  BY DEF Shifts, Modifiers
<1>2. (g \cap Shifts # {}) = shifted \/ k \in Shifts
  BY <1>1 DEF shifted
<1>3. Meaning(k, g, locks) = Mean(k, shifted)
  BY <1>2, MeaningRead
<1>. QED
  BY <1>3, ReadsAs

\* A lock key means itself.
LEMMA LockMeans ==
  ASSUME NEW k \in LockKeys, NEW h, NEW on
  PROVE  Meaning(k, h, on) = Key(k) /\ Key(k) # None /\ k \notin Modifiers
<1>1. k \notin DOMAIN Keypad /\ k \notin Signs /\ k \notin OneSign
  BY DEF LockKeys, Keypad, Signs, Letters, OneSign
<1>2. Key(k) # None /\ k \notin Modifiers
  BY DEF LockKeys, Key, None, Modifiers
<1>. QED
  BY <1>1, <1>2 DEF Meaning

\* A key that goes down and is reported.
LEMMA DownKeeps ==
  ASSUME Typed, NEW b, NEW t, NEW lo, NEW hi, NEW first,
         Decoding(b, t, lo, hi, first), DecodeKey,
         b[lo + 1].kind = "down", codes \notin Long
  PROVE  /\ Decoding(b, t, lo + 1, hi, first + 1)'
         /\ owed # <<>> /\ owed[1].flags = told'.flags
         /\ b[lo + 1].key \notin NamesOf(PowerCodes) => owed[1].key = told'.key
<1>. DEFINE k == b[lo + 1].key
            y == key(codes)
<1>1. /\ lo < hi /\ lo \in Nat /\ IsItem(b[lo + 1]) /\ codes = Codes(b[lo + 1])
      /\ Leads(b[lo + 1], t[lo], t[lo + 1]) /\ IsPoint(t[lo]) /\ IsPoint(t[lo + 1])
      /\ Line(b, t, lo + 1, hi) /\ first = t[lo].cnt /\ lock = None /\ pc = "read"
      /\ first \in Nat /\ UNCHANGED ibf
  BY ItemTaken
<1>2. /\ mods = t[lo].held \cap Modifiers /\ locks = t[lo].on
      /\ Line(b, t, lo, hi) /\ Lists(owed, b, t, lo, hi, first)
  BY DEF Decoding
<1>3. k \in Keys /\ codes = Make[k]
  BY <1>1 DEF IsItem, Codes
<1>4. k \in DOMAIN Make /\ k \notin Whole /\ Counts(b[lo + 1])
  BY <1>3, KeysAssumption, KeysShaped DEF Counts
<1>5. t[lo + 1].held = t[lo].held \cup {k}
  BY <1>1, <1>4 DEF Leads, Whole
<1>6. Fit(t[lo + 1].held) /\ k \in t[lo + 1].held /\ k # "ALT_R" /\ mods \subseteq t[lo + 1].held
  BY <1>1, <1>2, <1>5 DEF IsPoint, Fit
<1>7. make(codes) /\ Reads(k, y)
  BY <1>3, <1>4, <1>6, FitRead
<1>. HIDE DEF y
<1>8. /\ y[1] \notin LockKeys
      /\ mods' = IF y[1] \notin Modifiers THEN mods ELSE mods \cup {FlagOf(y[1])}
      /\ Report(OfPad(y), mods') /\ UNCHANGED <<locks, pc, lock>>
  BY <1>7 DEF DecodeKey, y
<1>9. k \notin LockKeys /\ mods' = IF k \notin Modifiers THEN mods ELSE mods \cup {k}
  BY <1>6, <1>7, <1>8, ReadsAs
<1>10. mods' = t[lo + 1].held \cap Modifiers /\ locks' = t[lo + 1].on
  BY <1>1, <1>2, <1>5, <1>8, <1>9 DEF Leads
<1>11. /\ owed # <<>> /\ first + 1 = t[lo + 1].cnt
       /\ owed[1] = Entry(k, t[lo + 1].held, t[lo + 1].on)
       /\ Lists(Tail(owed), b, t, lo + 1, hi, first + 1)
  <2>1. owed \in Seq(Entries)
    BY DEF Typed
  <2>. QED
    BY <1>1, <1>2, <1>4, <2>1, FirstOwed
<1>12. owed' = Tail(owed) /\ told'.key = OfPad(y) /\ told'.flags = mods'
  BY <1>8, <1>11 DEF Report
<1>13. Decoding(b, t, lo + 1, hi, first + 1)'
  <2>1. due' = due
    BY <1>1, <1>8 DEF due
  <2>2. first + 1 \in Nat /\ lock' = None /\ (first + 1) + 0 = t[lo + 1].cnt
    BY <1>1, <1>8, <1>11
  <2>. QED
    BY <1>10, <1>11, <1>12, <2>1, <2>2, ItemGone
<1>14. owed[1].flags = told'.flags /\ owed[1].key = Meaning(k, t[lo + 1].held, t[lo + 1].on)
  BY <1>10, <1>11, <1>12 DEF Entry
<1>15. ASSUME k \notin NamesOf(PowerCodes) PROVE owed[1].key = told'.key
  <2>1. t[lo + 1].on = locks
    BY <1>8, <1>10
  <2>2. OfPad(y) = Meaning(k, t[lo + 1].held, locks)
    <3>1. PICK h, g : h = t[lo].held /\ g = t[lo + 1].held
      OBVIOUS
    <3>2. Reads(k, y) /\ mods = h \cap Modifiers /\ g = h \cup {k} /\ k \notin NamesOf(PowerCodes)
      BY <1>2, <1>5, <1>7, <1>15, <3>1, Zenon
    <3>. HIDE DEF k
    <3>3. OfPad(y) = Meaning(k, g, locks)
      BY <3>2, MeantWhatIsRead
    <3>. QED
      BY <3>1, <3>3, Zenon
  <2>. QED
    BY <1>12, <1>14, <2>1, <2>2, Zenon
<1>. QED
  BY <1>11, <1>13, <1>14, <1>15

\* A key that goes down and is not reported.
LEMMA WholeKeeps ==
  ASSUME Typed, NEW b, NEW t, NEW lo, NEW hi, NEW first,
         Decoding(b, t, lo, hi, first), DecodeKey,
         b[lo + 1].kind = "down", codes \in Long
  PROVE  Decoding(b, t, lo + 1, hi, first)' /\ told' = told
<1>. DEFINE k == b[lo + 1].key
<1>1. /\ IsItem(b[lo + 1]) /\ codes = Codes(b[lo + 1])
      /\ Leads(b[lo + 1], t[lo], t[lo + 1]) /\ IsPoint(t[lo])
      /\ Lists(owed, b, t, lo + 1, hi, first) /\ first = t[lo].cnt
      /\ lock = None /\ first \in Nat /\ UNCHANGED ibf
  BY ItemTaken
<1>2. mods = t[lo].held \cap Modifiers /\ locks = t[lo].on
  BY DEF Decoding
<1>3. k \in Keys /\ codes = Make[k]
  BY <1>1 DEF IsItem, Codes
<1>4. k \in Whole /\ ~Counts(b[lo + 1])
  BY <1>3, KeysAssumption, KeysShaped DEF Counts
<1>5. k \notin Modifiers /\ k \notin LockKeys
  BY <1>4, WholeAreOrdinary
<1>6. UNCHANGED <<mods, owed, told, locks, pc, lock>>
  BY DEF DecodeKey
<1>7. mods' = t[lo + 1].held \cap Modifiers /\ locks' = t[lo + 1].on
  BY <1>1, <1>2, <1>5, <1>6 DEF Leads
<1>8. first + 0 = t[lo + 1].cnt
  BY <1>1, <1>4 DEF Leads
<1>9. due' = due
  BY <1>1, <1>6 DEF due
<1>. QED
  BY <1>1, <1>6, <1>7, <1>8, <1>9, ItemGone

\* A key that is let go, or an acknowledgement, is not reported.
LEMMA UpKeeps ==
  ASSUME Typed, NEW b, NEW t, NEW lo, NEW hi, NEW first,
         Decoding(b, t, lo, hi, first), DecodeKey, b[lo + 1].kind # "down"
  PROVE  Decoding(b, t, lo + 1, hi, first)' /\ told' = told
<1>. DEFINE k == b[lo + 1].key
            y == key(codes)
<1>1. /\ IsItem(b[lo + 1]) /\ codes = Codes(b[lo + 1])
      /\ Leads(b[lo + 1], t[lo], t[lo + 1]) /\ IsPoint(t[lo])
      /\ Lists(owed, b, t, lo + 1, hi, first) /\ first = t[lo].cnt
      /\ lock = None /\ first \in Nat /\ UNCHANGED ibf
  BY ItemTaken
<1>2. mods = t[lo].held \cap Modifiers /\ locks = t[lo].on
  BY DEF Decoding
<1>3. /\ ~make(codes) \/ codes \in Long
      /\ mods' = t[lo + 1].held \cap Modifiers
  <2>. HIDE DEF y
  <2>1. CASE b[lo + 1].kind = "ack"
    <3>1. codes = <<KB_ACK>> /\ t[lo + 1].held = t[lo].held
      BY <1>1, <2>1 DEF Codes, Leads
    <3>2. ~make(codes) /\ y[1] \notin Modifiers
      BY <3>1, AckRead DEF y
    <3>3. mods' = mods
      BY <3>2 DEF DecodeKey, y
    <3>. QED
      BY <1>2, <3>1, <3>2, <3>3
  <2>2. CASE b[lo + 1].kind = "up"
    <3>1. /\ k \in Keys \ {"PAUSEBREAK"} /\ codes = Break[k]
          /\ k \in t[lo].held /\ t[lo + 1].held = t[lo].held \ {k}
      BY <1>1, <2>2 DEF IsItem, Codes, Leads
    <3>2. CASE k \in Whole
      <4>1. codes \in Long
        BY <3>1, <3>2, KeysAssumption, KeysShaped DEF Whole
      <4>2. mods' = mods
        BY <4>1 DEF DecodeKey
      <4>3. k \notin Modifiers
        BY <3>2, WholeAreOrdinary
      <4>. QED
        BY <1>2, <3>1, <4>1, <4>2, <4>3
    <3>3. CASE k \notin Whole
      <4>1. codes \notin Long
        BY <3>1, <3>3, KeysAssumption, KeysShaped
      <4>2. Fit(t[lo].held) /\ mods \subseteq t[lo].held /\ k # "ALT_R"
        BY <1>1, <1>2, <3>1 DEF IsPoint, Fit
      <4>3. ~make(codes) /\ Reads(k, y)
        BY <3>1, <3>3, <4>2, FitRead DEF y
      <4>4. mods' = IF y[1] \notin Modifiers THEN mods ELSE mods \ {FlagOf(y[1])}
        BY <4>1, <4>3 DEF DecodeKey, y
      <4>5. mods' = IF k \notin Modifiers THEN mods ELSE mods \ {k}
        BY <4>2, <4>3, <4>4, ReadsAs
      <4>. QED
        BY <1>2, <3>1, <4>3, <4>5
    <3>. QED
      BY <3>2, <3>3
  <2>. QED
    BY <1>1, <2>1, <2>2 DEF IsItem
<1>4. UNCHANGED <<owed, told, locks, pc, lock>>
  BY <1>3 DEF DecodeKey
<1>5. locks' = t[lo + 1].on /\ first + 0 = t[lo + 1].cnt
  BY <1>1, <1>2, <1>4 DEF Leads, Counts
<1>6. due' = due
  BY <1>1, <1>4 DEF due
<1>. QED
  BY <1>1, <1>3, <1>4, <1>5, <1>6, ItemGone

\* A lock key: the report is made when set_leds is done.
LEMMA LockKeeps ==
  ASSUME Typed, NEW b, NEW t, NEW lo, NEW hi, NEW first,
         Decoding(b, t, lo, hi, first), DecodeLock
  PROVE  Decoding(b, t, lo + 1, hi, first)'
<1>. DEFINE k == b[lo + 1].key
            y == key(codes)
<1>1. /\ lo < hi /\ lo \in Nat /\ IsItem(b[lo + 1]) /\ codes = Codes(b[lo + 1])
      /\ Leads(b[lo + 1], t[lo], t[lo + 1]) /\ IsPoint(t[lo]) /\ IsPoint(t[lo + 1])
      /\ Line(b, t, lo + 1, hi) /\ first = t[lo].cnt /\ lock = None /\ pc = "read"
      /\ Lists(owed, b, t, lo + 1, hi, first)
      /\ first \in Nat /\ UNCHANGED ibf
  BY ItemTaken
<1>2. /\ mods = t[lo].held \cap Modifiers /\ locks = t[lo].on
      /\ Line(b, t, lo, hi) /\ Lists(owed, b, t, lo, hi, first)
  BY DEF Decoding
<1>3. /\ codes \notin Long /\ make(codes) /\ y[1] \in LockKeys
      /\ locks' = Toggle(locks, y[1]) /\ lock' = y /\ pc' = "code" /\ UNCHANGED <<mods, owed>>
  BY DEF DecodeLock
<1>. HIDE DEF y
<1>4. b[lo + 1].kind = "down"
  <2>1. CASE b[lo + 1].kind = "ack"
    BY <1>1, <1>3, <2>1, AckRead DEF Codes
  <2>2. CASE b[lo + 1].kind = "up"
    <3>1. /\ k \in Keys \ {"PAUSEBREAK"} /\ codes = Break[k] /\ k \in t[lo].held
      BY <1>1, <2>2 DEF IsItem, Codes, Leads
    <3>2. k \notin Whole
      BY <1>3, <3>1, KeysAssumption, KeysShaped DEF Whole
    <3>3. Fit(t[lo].held) /\ mods \subseteq t[lo].held
      BY <1>1, <1>2 DEF IsPoint
    <3>. QED
      BY <1>3, <3>1, <3>2, <3>3, FitRead
  <2>. QED
    BY <1>1, <2>1, <2>2 DEF IsItem
<1>5. k \in Keys /\ codes = Make[k]
  BY <1>1, <1>4 DEF IsItem, Codes
<1>6. k \in DOMAIN Make /\ k \notin Whole /\ Counts(b[lo + 1])
  BY <1>3, <1>4, <1>5, KeysAssumption, KeysShaped DEF Counts
<1>7. t[lo + 1].held = t[lo].held \cup {k}
  BY <1>1, <1>4, <1>6 DEF Leads, Whole
<1>8. Fit(t[lo + 1].held) /\ k \in t[lo + 1].held /\ mods \subseteq t[lo + 1].held
  BY <1>1, <1>2, <1>7 DEF IsPoint
<1>9. Reads(k, y)
  BY <1>5, <1>6, <1>8, FitRead DEF y
<1>10. k \in LockKeys /\ y = Key(k) /\ y[1] = k
  BY <1>3, <1>9, ReadsAs
<1>11. k \notin Modifiers /\ Key(k) # None
       /\ Meaning(k, t[lo + 1].held, t[lo + 1].on) = Key(k)
  BY <1>10, LockMeans
<1>12. mods' = t[lo + 1].held \cap Modifiers
  BY <1>2, <1>3, <1>7, <1>11
<1>13. locks' = t[lo + 1].on
  BY <1>1, <1>2, <1>3, <1>4, <1>10 DEF Leads
<1>14. first + 1 = t[lo + 1].cnt /\ owed[1] = Entry(k, t[lo + 1].held, t[lo + 1].on)
  <2>1. owed \in Seq(Entries)
    BY DEF Typed
  <2>. QED
    BY <1>1, <1>2, <1>6, <2>1, FirstOwed
<1>15. lock' # None /\ pc' # "read" /\ owed'[1] = [key |-> lock', flags |-> mods']
  BY <1>3, <1>10, <1>11, <1>12, <1>14 DEF Entry
<1>16. due' = due + 2 /\ t[lo + 1].extra = t[lo].extra + 2
  BY <1>1, <1>3, <1>4, <1>10 DEF due, Leads
<1>. QED
  BY <1>1, <1>3, <1>12, <1>13, <1>14, <1>15, <1>16, ItemGone

-----------------------------------------------------------------------------
(* The theorems *)

\* At the start, at most the acknowledgement of kernel_main's call is on its way.
LEMMA DecoderStart == Init => DecoderInv
<1>. SUFFICES ASSUME Init PROVE \E b, t, lo, hi, first : Decoding(b, t, lo, hi, first)
  BY TypedStart DEF DecoderInv
<1>. DEFINE p == [pos |-> 0, extra |-> 0, cnt |-> 0, held |-> {}, on |-> {"NUM_LOCK"}]
            q == [pos |-> 1, extra |-> 0, cnt |-> 0, held |-> {}, on |-> {"NUM_LOCK"}]
            x == [kind |-> "ack"]
            b == [i \in Nat |-> x]
            t == [i \in Nat |-> IF i = 1 THEN q ELSE p]
<1>1. /\ p.pos = 0 /\ p.extra = 0 /\ p.cnt = 0 /\ p.held = {} /\ p.on = {"NUM_LOCK"}
      /\ q.pos = 1 /\ q.extra = 0 /\ q.cnt = 0 /\ q.held = {} /\ q.on = {"NUM_LOCK"}
      /\ x.kind = "ack"
  OBVIOUS
<1>. HIDE DEF p, q, x
<1>2. t[0] = p /\ t[1] = q /\ b[0] = x /\ b[1] = x
  OBVIOUS
<1>. HIDE DEF b, t
<1>3. IsPoint(p) /\ IsPoint(q) /\ IsItem(x) /\ Codes(x) = <<KB_ACK>> /\ ~Counts(x)
  BY <1>1 DEF IsPoint, Fit, LockKeys, IsItem, Codes, Counts
<1>4. Leads(x, p, q)
  <2>1. Len(<<KB_ACK>>) = 1
    OBVIOUS
  <2>. QED
    BY <1>1, <1>3, <2>1 DEF Leads
<1>5. Line(b, t, 0, 0)
  <2>1. \A i \in 0 .. 0 : i = 0
    OBVIOUS
  <2>2. 0 + 1 .. 0 = {}
    OBVIOUS
  <2>3. Before(t[0], t[0])
    BY <1>1, <1>2 DEF Before
  <2>. QED
    BY <1>2, <1>3, <2>1, <2>2, <2>3 DEF Line
<1>6. More(b, t, b, t, 0, 0, x, q)
  BY <1>2 DEF More
<1>7. /\ got = <<>> /\ kb_in = <<>> /\ wire \in {<<>>, <<KB_ACK>>} /\ pc = "code" /\ lock = None
      /\ ibf = <<>> /\ mods = {} /\ locks = {"NUM_LOCK"} /\ held = {} /\ typed = {"NUM_LOCK"}
      /\ owed = <<>> /\ due = 2
  BY DEF Init, due
<1>8. <<>> \in Seq(Byte) /\ <<KB_ACK>> \in Seq(Byte)
  BY DEF KB_ACK, Byte
<1>9. stream = wire
  BY <1>7, <1>8, ConcatEmptySeq DEF stream
<1>10. Carries(<<>>, b, t, 0, 0) /\ Lists(<<>>, b, t, 0, 0, 0)
  <2>1. 0 + 1 .. 0 = {}
    OBVIOUS
  <2>. QED
    BY <1>1, <1>2, <2>1 DEF Carries, Lists
<1>11. CASE wire = <<>>
  <2>1. Load(t, 0, 0) + due =< 3 * MaxAhead + 11
    BY <1>1, <1>2, <1>7, BoundsAssumption DEF Load
  <2>2. Decoding(b, t, 0, 0, 0)
    BY <1>1, <1>2, <1>5, <1>7, <1>9, <1>10, <1>11, <2>1 DEF Decoding
  <2>. QED
    BY <2>2
<1>12. CASE wire = <<KB_ACK>>
  <2>1. Line(b, t, 0, 1)
    <3>1. Line(b, t, 0, 0 + 1)
      BY <1>2, <1>3, <1>4, <1>5, <1>6, LineMore
    <3>. QED
      BY <3>1
  <2>2. Carries(<<KB_ACK>>, b, t, 0, 1)
    <3>1. Carries(<<>> \o Codes(x), b, t, 0, 0 + 1)
      BY <1>2, <1>3, <1>4, <1>5, <1>6, <1>8, <1>10, CarriesMore
    <3>2. <<>> \o Codes(x) = <<KB_ACK>> /\ 0 + 1 = 1
      BY <1>3, <1>8, ConcatEmptySeq
    <3>. QED
      BY <3>1, <3>2
  <2>3. Lists(<<>>, b, t, 0, 1, 0)
    <3>1. ~Counts(b[1]) /\ 0 + 1 .. 1 = {1}
      BY <1>2, <1>3
    <3>. QED
      BY <1>1, <1>2, <3>1 DEF Lists
  <2>4. Load(t, 0, 1) + due =< 3 * MaxAhead + 11
    BY <1>1, <1>2, <1>7, BoundsAssumption DEF Load
  <2>5. Decoding(b, t, 0, 1, 0)
    BY <1>1, <1>2, <1>7, <1>9, <1>12, <2>1, <2>2, <2>3, <2>4 DEF Decoding
  <2>. QED
    BY <2>5
<1>. QED
  BY <1>7, <1>11, <1>12

\* A step of something else changes nothing.
LEMMA StillKeeps ==
  ASSUME Typed, NEW b, NEW t, NEW lo, NEW hi, NEW first,
         Decoding(b, t, lo, hi, first), UNCHANGED vars
  PROVE  Decoding(b, t, lo, hi, first)'
BY DEF vars, driver, device, person, Decoding, stream, due

\* Every step of the driver, the keyboard and the careful person keeps the
\* invariant.
LEMMA DecoderStep ==
  ASSUME RingSuffices, DecoderInv, [CarefulNext]_vars
  PROVE  DecoderInv'
<1>1. PICK b, t, lo, hi, first : Decoding(b, t, lo, hi, first)
  BY DEF DecoderInv
<1>2. Typed /\ Typed'
  BY CarefulIsNext, TypedStep DEF DecoderInv
<1>. SUFFICES \E c, u, l, h, n : Decoding(c, u, l, h, n)'
  BY <1>2 DEF DecoderInv
<1>3. CASE MoreToCome
  BY <1>1, <1>2, <1>3, MoreKeeps
<1>4. CASE DecodeKey
  BY <1>1, <1>2, <1>4, DownKeeps, WholeKeeps, UpKeeps
<1>5. CASE DecodeLock
  BY <1>1, <1>2, <1>5, LockKeeps
<1>6. CASE SetLeds
  BY <1>1, <1>2, <1>6, SetLedsKeeps
<1>7. CASE keyboard_handler
  BY <1>1, <1>2, <1>7, HandlerKeeps
<1>8. CASE Obey
  BY <1>1, <1>2, <1>8, ObeyKeeps
<1>9. ASSUME NEW k \in Keys, Release(k) PROVE \E c, u, l, h, n : Decoding(c, u, l, h, n)'
  BY <1>1, <1>2, <1>9, ReleaseKeeps
<1>10. ASSUME NEW k \in Keys, ~Avoided(k), Strike(k)
       PROVE \E c, u, l, h, n : Decoding(c, u, l, h, n)'
  BY <1>1, <1>2, <1>10, StrikeKeeps
<1>11. CASE UNCHANGED vars
  BY <1>1, <1>2, <1>11, StillKeeps
<1>. QED
  BY <1>3, <1>4, <1>5, <1>6, <1>7, <1>8, <1>9, <1>10, <1>11 DEF CarefulNext, System, task_tty

\* When every code has been decoded, no item is left.
LEMMA QuietMeansDone ==
  ASSUME DecoderInv, Quiet
  PROVE  mods = held \cap Modifiers /\ locks = typed /\ owed = <<>>
<1>1. PICK b, t, lo, hi, first : Decoding(b, t, lo, hi, first)
  BY DEF DecoderInv
<1>2. /\ Line(b, t, lo, hi) /\ Len(stream) = t[hi].pos - t[lo].pos
      /\ Len(owed) = t[hi].cnt - first /\ lock = None /\ first + 0 = t[lo].cnt /\ first \in Nat
      /\ mods = t[lo].held \cap Modifiers /\ locks = t[lo].on
      /\ held = t[hi].held /\ typed = t[hi].on
  BY <1>1 DEF Decoding, Quiet, Carries, Lists
<1>3. Len(stream) = 0
  BY StreamIs DEF Quiet, DecoderInv
<1>4. /\ lo \in Nat /\ hi \in Nat /\ lo =< hi /\ t[lo].pos \in Nat /\ t[hi].pos \in Nat
      /\ t[hi].cnt \in Nat
  BY <1>2, LineEnds
<1>5. lo = hi
  <2>. SUFFICES ASSUME lo < hi PROVE FALSE
    BY <1>4
  <2>1. lo + 1 \in lo + 1 .. hi /\ (lo + 1) - 1 = lo /\ hi \in lo .. hi /\ lo + 1 \in lo .. hi
        /\ lo + 1 =< hi
    BY <1>4
  <2>2. IsItem(b[lo + 1]) /\ Leads(b[lo + 1], t[lo], t[lo + 1]) /\ Before(t[lo + 1], t[hi])
    BY <1>2, <2>1 DEF Line
  <2>3. Len(Codes(b[lo + 1])) \in 1 .. 6
    BY <2>2, ItemShaped
  <2>4. t[lo + 1].pos = t[lo].pos + Len(Codes(b[lo + 1])) /\ t[lo + 1].pos =< t[hi].pos
    BY <2>2 DEF Leads, Before
  <2>. QED
    <3>1. PICK p0 \in Nat, ph \in Nat, l \in 1 .. 6 :
            p0 = t[lo].pos /\ ph = t[hi].pos /\ l = Len(Codes(b[lo + 1]))
      BY <1>4, <2>3, Zenon
    <3>2. 0 = ph - p0 /\ t[lo + 1].pos = p0 + l /\ t[lo + 1].pos =< ph
      BY <1>2, <1>3, <2>4, <3>1, Zenon
    <3>. QED
      BY <3>2
<1>6. Len(owed) = 0
  BY <1>2, <1>4, <1>5
<1>7. owed = <<>>
  BY <1>6 DEF DecoderInv, Typed
<1>. QED
  BY <1>2, <1>5, <1>7

NoPowerKeys == Keys \cap NamesOf(PowerCodes) = {}

Struck == owed # <<>> /\ told'.key = Head(owed).key /\ told'.flags = Head(owed).flags

\* A report is the first that is owed.
LEMMA ReportIsDue ==
  ASSUME NoPowerKeys, DecoderInv, [CarefulNext]_vars, told' # told
  PROVE  Struck
<1>1. PICK b, t, lo, hi, first : Decoding(b, t, lo, hi, first)
  BY DEF DecoderInv
<1>2. Typed
  BY DEF DecoderInv
<1>3. DecodeKey \/ SetLeds
  BY DEF CarefulNext, System, task_tty, MoreToCome, DecodeLock, keyboard_handler, Obey,
         Strike, Release, vars
<1>4. CASE DecodeKey
  <2>1. b[lo + 1].kind = "down" /\ codes \notin Long
    BY <1>1, <1>2, <1>4, UpKeeps, WholeKeeps
  <2>2. b[lo + 1].key \in Keys
    BY <1>1, <1>2, <1>4, <2>1, ItemTaken DEF IsItem
  <2>3. b[lo + 1].key \notin NamesOf(PowerCodes)
    BY <2>2 DEF NoPowerKeys
  <2>4. owed # <<>> /\ told'.key = owed[1].key /\ told'.flags = owed[1].flags
    BY <1>1, <1>2, <1>4, <2>1, <2>3, DownKeeps
  <2>. QED
    BY <2>4 DEF Struck
<1>5. CASE SetLeds
  <2>1. pc = "last_ack" /\ lock # None /\ Report(lock, mods)
    BY <1>5 DEF SetLeds, set_leds
  <2>2. told'.key = lock /\ told'.flags = mods
    BY <2>1 DEF Report
  <2>3. owed[1] = [key |-> lock, flags |-> mods]
    BY <1>1, <2>1 DEF Decoding
  <2>4. owed # <<>>
    <3>1. /\ Line(b, t, lo, hi) /\ Lists(owed, b, t, lo, hi, first)
          /\ first \in Nat /\ first + 1 = t[lo].cnt /\ owed \in Seq(Entries)
      BY <1>1, <1>2, <2>1 DEF Decoding, Typed
    <3>. QED
      BY <3>1, ListsTail
  <2>. QED
    BY <2>2, <2>3, <2>4 DEF Struck
<1>. QED
  BY <1>3, <1>4, <1>5

\* If the ring is as large as the person's codes need, then whenever every code
\* has been decoded the flags are 1 for the modifiers that are down, and the locks
\* are those the person toggled (keyboard.c:149-157), for every set of keys.
THEOREM ModifiersAgree ==
  ASSUME RingSuffices
  PROVE  CarefulSpec => []ModifiersFollowKeys
<1>1. Init => DecoderInv
  BY DecoderStart
<1>2. DecoderInv /\ [CarefulNext]_vars => DecoderInv'
  BY DecoderStep
<1>3. DecoderInv => ModifiersFollowKeys
  BY QuietMeansDone DEF ModifiersFollowKeys
<1>. QED
  BY <1>1, <1>2, <1>3, PTL DEF CarefulSpec

\* And no key that was struck is still to be reported.
THEOREM NoneForgotten ==
  ASSUME RingSuffices
  PROVE  CarefulSpec => []NothingOwed
<1>1. Init => DecoderInv
  BY DecoderStart
<1>2. DecoderInv /\ [CarefulNext]_vars => DecoderInv'
  BY DecoderStep
<1>3. DecoderInv => NothingOwed
  BY QuietMeansDone DEF NothingOwed
<1>. QED
  BY <1>1, <1>2, <1>3, PTL DEF CarefulSpec

\* And each call of in_process is for the next key struck that was not reported
\* yet, with the character or name and the modifiers the person meant at that
\* moment, however many codes were on their way (keyboard.c:217-423).  The keys of
\* PowerCodes have no entry in keymap and are left out.
THEOREM ReportedAsStruck ==
  ASSUME RingSuffices, NoPowerKeys
  PROVE  CarefulSpec => ReportsWhatWasStruck
<1>1. Init => DecoderInv
  BY DecoderStart
<1>2. DecoderInv /\ [CarefulNext]_vars => DecoderInv'
  BY DecoderStep
<1>3. DecoderInv /\ [CarefulNext]_vars =>
        [told' # told => owed # <<>> /\ told'.key = Head(owed).key
                                     /\ told'.flags = Head(owed).flags]_vars
  BY ReportIsDue DEF Struck
<1>. QED
  BY <1>1, <1>2, <1>3, PTL DEF CarefulSpec, ReportsWhatWasStruck
=============================================================================
