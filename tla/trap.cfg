CONSTANTS
  NR_TASKS = 1
  NR_PROCS = 2
  priority <- Slices
  stacksize <- Stacks
  STACK_SIZE_TOTAL = 98304
  proc_table = 208896
  task_stack = 262144
  tss = 212992
  Word = 8
  Vectors = {0, 1, 2, 3, 4, 5, 6, 7, 8, 9, 10, 11, 12, 13, 14, 16}
SPECIFICATION FairSpec
CHECK_DEADLOCK FALSE
INVARIANTS
  TypeOK
  NestingMatches
  MaskIsHandled
  CallerIsCaller
  RingIsKnown
  ResumesOwn
  NothingRefused
  ChoosesBest
  NamesTheException
PROPERTIES
  KernelNotPreempted
  RequestsServed
  Dispatches
