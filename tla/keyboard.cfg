CONSTANTS
  KB_IN_BYTES = 32
  Keys = {"SHIFT_L", "CAPS_LOCK", "SCROLL_LOCK", "a", "KP_7", "CTRL_R", "CTRL_L", "PRINTSCREEN", "PAUSEBREAK"}
  MaxHeld = 2
  MaxAhead = 1
SPECIFICATION CarefulSpec
VIEW Future
INVARIANTS
  TypeOK
  ModifiersFollowKeys
  NothingOwed
  LedsShowLocks
PROPERTIES
  ReportsWhatWasStruck
  DecoderReturns
