CONSTANTS
  KB_IN_BYTES = 32
  Keys = {"SHIFT_L", "UP"}
  MaxHeld = 2
  MaxAhead = 2
SPECIFICATION Spec
VIEW Future
PROPERTIES
  ThirdColumnIsE0
