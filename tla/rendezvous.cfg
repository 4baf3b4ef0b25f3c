CONSTANTS
  NR_TASKS = 1
  NR_PROCS = 2
  m1 = m1
  Body = {m1}
  Priority <- Equal
  TickFloor = 1
SPECIFICATION Spec
CHECK_DEADLOCK FALSE
INVARIANT
  TypeOK
PROPERTY
  Refinement
