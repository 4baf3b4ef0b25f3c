CONSTANTS
  NR_TASKS = 2
  NR_PROCS = 2
  m1 = m1
  Body = {m1}
  Priority <- Equal
  TickFloor = 1
SPECIFICATION Spec
VIEW Control
CHECK_DEADLOCK FALSE
INVARIANTS
  IInv
  QueueMatchesSenders
  NoSendCycle
  NoMissedRendezvous
  AssertionsHold
PROPERTY
  FifoQueues
