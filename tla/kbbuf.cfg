CONSTANTS
  KB_IN_BYTES = 4
  ScanCode = {a, b}
SPECIFICATION QuietSpec
INVARIANTS
  TypeOK
  HoldsUnread
