CONSTANTS
  KB_IN_BYTES = 3
  ScanCode = {a, b}
SPECIFICATION Spec
INVARIANT
  ReadsNextByte
