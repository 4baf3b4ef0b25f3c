CONSTANTS
  KB_IN_BYTES = 32
  Keys = {"ALT_L", "ALT_R"}
  MaxHeld = 2
  MaxAhead = 2
SPECIFICATION Spec
VIEW Future
INVARIANT
  AltStateIsOwn
