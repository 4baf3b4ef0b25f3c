CONSTANTS
  NR_TASKS = 1
  NR_PROCS = 2
  m1 = m1
  Body = {m1}
  Priority <- Unequal
  TickFloor = 0
SPECIFICATION FairSpec
VIEW Control
CHECK_DEADLOCK FALSE
PROPERTY
  NoStarvation
